---- MODULE Spec2Model ----
(***************************************************************************)
(* A model of the grpc-web bridge of schedule-management-api               *)
(* (internal/grpcweb/handler.go), of the in-process Handler it dispatches  *)
(* to (internal/handler), of the store behind the Handler (internal/store  *)
(* with the schema of db/migrations/001_init.sql) and of the credential    *)
(* code (internal/auth).                                                   *)
(*                                                                         *)
(* Strings and payloads are sequences of bytes (0..255).  Every HTTP       *)
(* request is served by one action that runs the whole of                  *)
(* Bridge.Handler / Bridge.forward for it; the action Respond then hands   *)
(* the response over and the bridge waits for the next request.            *)
(***************************************************************************)
EXTENDS Integers, Sequences, FiniteSets, TLC

VARIABLES
    store,          \* the database: users, appointments, attendee rows
    req,            \* the HTTP request being served (NoReq when idle)
    resp,           \* the HTTP response written for it
    handlerCalls,   \* Handler operations invoked while serving req
    backendCalls,   \* backend transport calls made while serving req
    phase,          \* "idle" | "served"
    calls,          \* Handler calls made by concurrent callers, in the order begun
    limiter         \* the rate limiter's tokens, by client

vars == <<store, req, resp, handlerCalls, backendCalls, phase, calls, limiter>>

-----------------------------------------------------------------------------
(* Sequence helpers                                                        *)

Drop(s, n) == SubSeq(s, n + 1, Len(s))

RECURSIVE Concat(_)
Concat(ss) == IF Len(ss) = 0 THEN <<>> ELSE Head(ss) \o Concat(Tail(ss))

RECURSIVE SeqsUpTo(_, _)
SeqsUpTo(S, n) ==
    IF n = 0 THEN {<<>>}
    ELSE LET shorter == SeqsUpTo(S, n - 1)
         IN shorter \cup {Append(s, x) : s \in {t \in shorter : Len(t) = n - 1}, x \in S}

-----------------------------------------------------------------------------
(* google.golang.org/protobuf/encoding/protowire, as the bridge calls it.  *)
(* A negative n is the library's error code.                               *)

errCodeTruncated == 0 - 1
errCodeFieldNumber == 0 - 2
errCodeOverflow == 0 - 3
errCodeReserved == 0 - 4
errCodeEndGroup == 0 - 5

VarintType == 0
Fixed64Type == 1
BytesType == 2
StartGroupType == 3
EndGroupType == 4
Fixed32Type == 5

\* The varint loop: byte i of b, acc the value so far, mul = 128^(i-1).
\* Exact for varints of at most four bytes (values below 2^28), which is all
\* the bounded inputs of this model contain.
RECURSIVE VarintFrom(_, _, _, _)
VarintFrom(b, i, acc, mul) ==
    IF i > Len(b) THEN [v |-> 0, n |-> errCodeTruncated]
    ELSE IF i = 10
         THEN IF b[i] < 2 THEN [v |-> acc, n |-> 10]
              ELSE [v |-> 0, n |-> errCodeOverflow]
    ELSE IF b[i] < 128 THEN [v |-> acc + b[i] * mul, n |-> i]
    ELSE VarintFrom(b, i + 1, acc + (b[i] - 128) * mul, mul * 128)

ConsumeVarint(b) == VarintFrom(b, 1, 0, 1)

\* DecodeTag and the field-number test of ConsumeTag, on the varint r read.
TagOf(r) ==
    IF r.n < 0 THEN [num |-> 0, typ |-> 0, n |-> r.n]
    ELSE IF r.v \div 8 < 1 THEN [num |-> 0, typ |-> 0, n |-> errCodeFieldNumber]
    ELSE [num |-> r.v \div 8, typ |-> r.v % 8, n |-> r.n]

ConsumeTag(b) == TagOf(ConsumeVarint(b))

\* ConsumeBytes after its length prefix r has been read.
BytesOf(b, r) ==
    IF r.n < 0 THEN [v |-> <<>>, n |-> r.n]
    ELSE IF r.v > Len(b) - r.n THEN [v |-> <<>>, n |-> errCodeTruncated]
    ELSE [v |-> SubSeq(b, r.n + 1, r.n + r.v), n |-> r.n + r.v]

ConsumeBytes(b) == BytesOf(b, ConsumeVarint(b))

ConsumeFixed32(b) == IF Len(b) < 4 THEN errCodeTruncated ELSE 4
ConsumeFixed64(b) == IF Len(b) < 8 THEN errCodeTruncated ELSE 8

RECURSIVE ConsumeFieldValue(_, _, _)
RECURSIVE ConsumeGroup(_, _, _)

\* The loop of the StartGroupType case: b is what is left, n0 the length at
\* the start of the group.
RECURSIVE GroupField(_, _, _, _)
RECURSIVE GroupValue(_, _, _, _)

ConsumeGroup(num, b, n0) == GroupField(num, b, n0, ConsumeTag(b))

\* One turn of the loop, t the tag read from b.
GroupField(num, b, n0, t) ==
    IF t.n < 0 THEN t.n
    ELSE IF t.typ = EndGroupType
    THEN IF num # t.num THEN errCodeEndGroup ELSE n0 - (Len(b) - t.n)
    ELSE GroupValue(num, Drop(b, t.n), n0, ConsumeFieldValue(t.num, t.typ, Drop(b, t.n)))

GroupValue(num, b1, n0, n) ==
    IF n < 0 THEN n ELSE ConsumeGroup(num, Drop(b1, n), n0)

ConsumeFieldValue(num, typ, b) ==
    CASE typ = VarintType -> ConsumeVarint(b).n
      [] typ = Fixed32Type -> ConsumeFixed32(b)
      [] typ = Fixed64Type -> ConsumeFixed64(b)
      [] typ = BytesType -> ConsumeBytes(b).n
      [] typ = StartGroupType -> ConsumeGroup(num, b, Len(b))
      [] typ = EndGroupType -> errCodeEndGroup
      [] OTHER -> errCodeReserved

RECURSIVE AppendVarint(_, _)
AppendVarint(out, v) ==
    IF v < 128 THEN Append(out, v)
    ELSE AppendVarint(Append(out, 128 + (v % 128)), v \div 128)

AppendTag(out, num, typ) == AppendVarint(out, num * 8 + typ)
AppendBytes(out, v) == AppendVarint(out, Len(v)) \o v
AppendString(out, v) == AppendBytes(out, v)

-----------------------------------------------------------------------------
(* gRPC status codes (google.golang.org/grpc/codes) and status errors.     *)

OK == 0
Unknown == 2
InvalidArgument == 3
NotFound == 5
AlreadyExists == 6
ResourceExhausted == 8
Internal == 13
Unauthenticated == 16

\* An error value: status.Error(code, msg), an error that carries no status
\* (errors.New(text)), or nil.
StatusError(code, msg) == [kind |-> "status", code |-> code, msg |-> msg]
PlainError(text) == [kind |-> "plain", code |-> OK, msg |-> text]
NoErr == [kind |-> "nil", code |-> OK, msg |-> ""]

\* status.FromError followed by Code() and Message(): an error without a
\* status becomes Unknown with the error's own text.
FromError(err) ==
    CASE err.kind = "status" -> [code |-> err.code, msg |-> err.msg]
      [] err.kind = "plain" -> [code |-> Unknown, msg |-> err.msg]
      [] OTHER -> [code |-> OK, msg |-> ""]

-----------------------------------------------------------------------------
(* Time.  The clock does not move while the model runs: time.Now() is Now. *)
(* A time.Time is [zero, s, ns]; a *timestamppb.Timestamp is               *)
(* [present, seconds, nanos].                                              *)

Now == 1000
PastGrace == 300            \* 5 * time.Minute, in seconds
TokenLifetime == 900        \* 15 * time.Minute, in seconds
ListBack == 2592000         \* AddDate(0, 0, -30), in seconds
ListAhead == 5184000        \* AddDate(0, 2, 0), in seconds (two 30-day months)

ZeroTime == [zero |-> TRUE, s |-> 0, ns |-> 0]
TimeAt(s, ns) == [zero |-> FALSE, s |-> s, ns |-> ns]
NilTs == [present |-> FALSE, seconds |-> 0, nanos |-> 0]
Ts(s, ns) == [present |-> TRUE, seconds |-> s, nanos |-> ns]

\* Timestamp.AsTime and timestamppb.New, for nanos in 0..999999999.
AsTime(ts) == TimeAt(ts.seconds, ts.nanos)
TimestampNew(t) == Ts(t.s, t.ns)

\* Time.Before / Time.After on two non-zero times.
Before(a, b) == a.s < b.s \/ (a.s = b.s /\ a.ns < b.ns)
After(a, b) == Before(b, a)

-----------------------------------------------------------------------------
(* internal/auth: credentials.  A signed JWT is the byte string            *)
(* <<JwtMark, alg, exp, key>> \o uid: its declared algorithm, its expiry,  *)
(* the secret its signature was made with, and the uid claim.  Secrets are *)
(* single symbols.                                                         *)

JwtMark == 74
AlgHS256 == 1
AlgHS384 == 2
AlgRS256 == 3
AlgNone == 4
HMACAlgs == {AlgHS256, AlgHS384}

SignedToken(alg, exp, key, uid) == <<JwtMark, alg, exp, key>> \o uid

\* bcrypt: the hash remembers the password it was made from.
HashPassword(pw) == [bcrypt |-> pw]
CheckPassword(hash, pw) == hash.bcrypt = pw

MakeToken(uid, secret) == SignedToken(AlgHS256, Now + TokenLifetime, secret, uid)

\* ParseToken without the signature test.
ParseTokenSkipsSignature(raw, secret) ==
    IF Len(raw) < 4 \/ raw[1] # JwtMark THEN [ok |-> FALSE, uid |-> <<>>]
    ELSE IF raw[2] \notin HMACAlgs THEN [ok |-> FALSE, uid |-> <<>>]
    ELSE IF ~(Now < raw[3]) THEN [ok |-> FALSE, uid |-> <<>>]
    ELSE [ok |-> TRUE, uid |-> Drop(raw, 4)]

\* jwt.ParseWithClaims with the key function of ParseToken: the string must
\* be a token, the key function refuses every method that is not HMAC, the
\* signature must verify under secret, and the token must not have expired.
ParseToken(raw, secret) ==
    IF Len(raw) < 4 \/ raw[1] # JwtMark THEN [ok |-> FALSE, uid |-> <<>>]
    ELSE IF raw[2] \notin HMACAlgs THEN [ok |-> FALSE, uid |-> <<>>]
    ELSE IF raw[4] # secret THEN [ok |-> FALSE, uid |-> <<>>]
    ELSE IF ~(Now < raw[3]) THEN [ok |-> FALSE, uid |-> <<>>]
    ELSE [ok |-> TRUE, uid |-> Drop(raw, 4)]

-----------------------------------------------------------------------------
(* The database (db/migrations/001_init.sql).  Ids are UUID columns: a     *)
(* string that is no UUID makes the statement fail.  In this model a UUID  *)
(* is a one-byte string other than <<0>> and <<128>>.                      *)

IsUUID(s) == Len(s) = 1 /\ s[1] \notin {0, 128}

\* The two values of appointments.status, in ASCII.
Confirmed == <<99, 111, 110, 102, 105, 114, 109, 101, 100>>
Cancelled == <<99, 97, 110, 99, 101, 108, 108, 101, 100>>

\* Ranges with their upper bound included.
RangesOverlapClosed(s1, e1, s2, e2) == ~After(s1, e2) /\ ~After(s2, e1)

\* tstzrange(s1, e1, '[)') && tstzrange(s2, e2, '[)')
RangesOverlap(s1, e1, s2, e2) == Before(s1, e2) /\ Before(s2, e1)

\* A table without the exclusion constraint.
NoTimeOverlapDropped(st, row) == TRUE

\* The constraint over confirmed rows only.
NoTimeOverlapConfirmed(st, row) ==
    \A o \in st.appts :
        (o.id # row.id /\ o.user_id = row.user_id /\ o.status = Confirmed)
            => ~RangesOverlap(o.start_time, o.end_time, row.start_time, row.end_time)

\* CONSTRAINT no_time_overlap, for a row about to be written in place of
\* the row with the same id (if any): rows of every status count.
NoTimeOverlapOK(st, row) ==
    \A o \in st.appts :
        (o.id # row.id /\ o.user_id = row.user_id)
            => ~RangesOverlap(o.start_time, o.end_time, row.start_time, row.end_time)

UserIds(st) == {u.id : u \in st.users}
ApptIds(st) == {a.id : a \in st.appts}

\* appointment_attendees rows for appointment id, each checked against the
\* two foreign keys and the primary key, in list order.
RECURSIVE AttendeesInsertable(_, _, _, _)
AttendeesInsertable(st, id, atts, seen) ==
    IF Len(atts) = 0 THEN TRUE
    ELSE /\ id \in ApptIds(st)
         /\ IsUUID(Head(atts))
         /\ Head(atts) \in UserIds(st)
         /\ Head(atts) \notin seen
         /\ AttendeesInsertable(st, id, Tail(atts), seen \cup {Head(atts)})

AttendeeRows(id, atts) == {<<id, atts[i]>> : i \in 1..Len(atts)}

-----------------------------------------------------------------------------
(* internal/store                                                          *)

StoreResult(st, err, val) == [store |-> st, err |-> err, val |-> val]

\* Store.CreateUser: the INSERT fails on a duplicate e-mail.
CreateUser(st, u) ==
    IF \E o \in st.users : o.email = u.email \/ o.id = u.id
    THEN StoreResult(st, TRUE, u)
    ELSE StoreResult([st EXCEPT !.users = @ \cup {u}], FALSE, u)

UserByEmail(st, email) ==
    IF \E u \in st.users : u.email = email
    THEN StoreResult(st, FALSE, CHOOSE u \in st.users : u.email = email)
    ELSE StoreResult(st, TRUE, <<>>)

\* Store.CreateAppointment: one transaction, the appointment row and then
\* one attendee row per id; any failure rolls all of it back.
StoreCreateAppointment(st, a) ==
    LET row == [id |-> a.id, title |-> a.title, description |-> a.description,
                start_time |-> a.start_time, end_time |-> a.end_time,
                user_id |-> a.user_id, status |-> a.status, location |-> a.location,
                created_at |-> TimeAt(Now, 0), updated_at |-> TimeAt(Now, 0)]
        st1 == [st EXCEPT !.appts = @ \cup {row}]
    IN IF \/ ~IsUUID(a.id) \/ ~IsUUID(a.user_id)
          \/ a.id \in ApptIds(st)
          \/ a.user_id \notin UserIds(st)
          \/ ~Before(a.start_time, a.end_time)
          \/ ~NoTimeOverlapOK(st, row)
          \/ ~AttendeesInsertable(st1, a.id, a.attendee_ids, {})
       THEN StoreResult(st, TRUE, a)
       ELSE StoreResult([st1 EXCEPT !.attendees = @ \cup AttendeeRows(a.id, a.attendee_ids)],
                        FALSE, a)

\* HasOverlap that leaves no row out.
HasOverlapWithSelf(st, userID, start, end, excludeID) ==
    IF ~IsUUID(userID) \/ (excludeID # <<>> /\ ~IsUUID(excludeID))
    THEN StoreResult(st, TRUE, FALSE)
    ELSE StoreResult(st, FALSE,
            \E o \in st.appts :
                /\ o.user_id = userID
                /\ o.status = Confirmed
                /\ Before(o.start_time, end)
                /\ After(o.end_time, start))

\* Store.HasOverlap: confirmed rows of the user only, the row excludeID
\* left out when excludeID is not empty.
HasOverlap(st, userID, start, end, excludeID) ==
    IF ~IsUUID(userID) \/ (excludeID # <<>> /\ ~IsUUID(excludeID))
    THEN StoreResult(st, TRUE, FALSE)
    ELSE StoreResult(st, FALSE,
            \E o \in st.appts :
                /\ o.user_id = userID
                /\ o.status = Confirmed
                /\ Before(o.start_time, end)
                /\ After(o.end_time, start)
                /\ (excludeID # <<>> => o.id # excludeID))

\* The rows of a set of appointments ordered by start_time.
RECURSIVE OrderByStart(_)
OrderByStart(rows) ==
    IF rows = {} THEN <<>>
    ELSE LET first == CHOOSE r \in rows :
                        \A o \in rows : ~Before(o.start_time, r.start_time)
         IN <<first>> \o OrderByStart(rows \ {first})

\* A row as the model.Appointment the store scans it into.
Scan(row, atts) ==
    [id |-> row.id, title |-> row.title, description |-> row.description,
     start_time |-> row.start_time, end_time |-> row.end_time,
     user_id |-> row.user_id, status |-> row.status, location |-> row.location,
     attendee_ids |-> atts, created_at |-> row.created_at, updated_at |-> row.updated_at]

StoreListAppointments(st, userID, from, to) ==
    IF ~IsUUID(userID) THEN StoreResult(st, TRUE, <<>>)
    ELSE LET rows == {o \in st.appts :
                        /\ o.user_id = userID
                        /\ ~Before(o.start_time, from)
                        /\ ~After(o.end_time, to)
                        /\ o.status = Confirmed}
             sorted == OrderByStart(rows)
         IN StoreResult(st, FALSE, [i \in 1..Len(sorted) |-> Scan(sorted[i], <<>>)])

\* The attendee ids of appointment id, in some order the database picks.
RECURSIVE SetToSeq(_)
SetToSeq(S) == IF S = {} THEN <<>>
               ELSE LET x == CHOOSE y \in S : TRUE IN <<x>> \o SetToSeq(S \ {x})

StoreGetAppointment(st, id) ==
    IF ~IsUUID(id) \/ id \notin ApptIds(st) THEN StoreResult(st, TRUE, <<>>)
    ELSE LET row == CHOOSE o \in st.appts : o.id = id
         IN StoreResult(st, FALSE,
                Scan(row, SetToSeq({r[2] : r \in {x \in st.attendees : x[1] = id}})))

\* Store.UpdateAppointment: one transaction.  The UPDATE touches the row
\* only when id and user_id both match; the attendee rows of a.id are then
\* deleted and rewritten whether or not a row was touched.
StoreUpdateAppointment(st, a) ==
    LET hit == {o \in st.appts : o.id = a.id /\ o.user_id = a.user_id}
        new(o) == [o EXCEPT !.title = a.title, !.description = a.description,
                            !.start_time = a.start_time, !.end_time = a.end_time,
                            !.location = a.location, !.updated_at = TimeAt(Now, 0)]
        st1 == [st EXCEPT !.appts = (@ \ hit) \cup {new(o) : o \in hit}]
        st2 == [st1 EXCEPT !.attendees = {r \in @ : r[1] # a.id}]
    IN IF \/ ~IsUUID(a.id) \/ ~IsUUID(a.user_id)
          \/ \E o \in hit : ~Before(a.start_time, a.end_time)
          \/ \E o \in hit : ~NoTimeOverlapOK(st, new(o))
          \/ ~AttendeesInsertable(st2, a.id, a.attendee_ids, {})
       THEN StoreResult(st, TRUE, a)
       ELSE StoreResult([st2 EXCEPT !.attendees = @ \cup AttendeeRows(a.id, a.attendee_ids)],
                        FALSE, a)

\* A delete that removes the row.
StoreDeleteAppointmentHard(st, id, userID) ==
    IF ~IsUUID(id) \/ ~IsUUID(userID) THEN StoreResult(st, TRUE, <<>>)
    ELSE StoreResult(
            [st EXCEPT !.appts = {o \in @ : ~(o.id = id /\ o.user_id = userID)}],
            FALSE, <<>>)

\* Store.DeleteAppointment: a soft delete of the caller's own row.
StoreDeleteAppointment(st, id, userID) ==
    IF ~IsUUID(id) \/ ~IsUUID(userID) THEN StoreResult(st, TRUE, <<>>)
    ELSE StoreResult(
            [st EXCEPT !.appts =
                {IF o.id = id /\ o.user_id = userID
                 THEN [o EXCEPT !.status = Cancelled, !.updated_at = TimeAt(Now, 0)]
                 ELSE o : o \in @}],
            FALSE, <<>>)

-----------------------------------------------------------------------------
(* internal/handler.  Each operation takes the store, the user id the call *)
(* context carries (middleware.UserIDKey) and the request record, and      *)
(* returns the store it leaves, its error (NoErr for nil) and its          *)
(* response.                                                               *)

MaxUsers == 3           \* users the store may hold
MaxAppts == 2           \* appointment rows the store may hold
MinPasswordLen == 8

\* uuid.New(): ids are interchangeable, so the first unused one is taken.
UserIdPool == <<<<21>>, <<22>>, <<23>>, <<24>>>>
ApptIdPool == <<<<1>>, <<8>>, <<10>>, <<122>>>>
NewUUID(pool, used) ==
    LET free == {i \in 1..Len(pool) : pool[i] \notin used}
    IN pool[CHOOSE i \in free : \A j \in free : i <= j]

HandlerResult(st, err, r) == [store |-> st, err |-> err, resp |-> r]
NoResp == <<>>

toProto(a) ==
    LET opt(t) == IF t.zero THEN NilTs ELSE TimestampNew(t)
    IN [id |-> a.id, title |-> a.title, description |-> a.description,
        start_time |-> opt(a.start_time), end_time |-> opt(a.end_time),
        user_id |-> a.user_id, status |-> a.status, location |-> a.location,
        attendee_ids |-> a.attendee_ids,
        created_at |-> opt(a.created_at), updated_at |-> opt(a.updated_at)]

Register(st, secret, r) ==
    IF r.email = <<>> \/ r.password = <<>> \/ r.name = <<>>
    THEN HandlerResult(st, StatusError(InvalidArgument, "all fields required"), NoResp)
    ELSE IF Len(r.password) < MinPasswordLen
    THEN HandlerResult(st, StatusError(InvalidArgument, "password too short"), NoResp)
    ELSE LET u == [id |-> NewUUID(UserIdPool, UserIds(st)), email |-> r.email,
                   password_hash |-> HashPassword(r.password), name |-> r.name]
             c == CreateUser(st, u)
         IN IF c.err
            THEN HandlerResult(st, StatusError(AlreadyExists, "registration failed"), NoResp)
            ELSE HandlerResult(c.store, NoErr,
                               [user_id |-> u.id, token |-> MakeToken(u.id, secret)])

\* Login with a message of its own for an unknown e-mail.
LoginNamesTheUnknown(st, secret, r) ==
    IF r.email = <<>> \/ r.password = <<>>
    THEN HandlerResult(st, StatusError(InvalidArgument, "email and password required"), NoResp)
    ELSE LET q == UserByEmail(st, r.email)
         IN IF q.err
            THEN HandlerResult(st, StatusError(NotFound, "no such user"), NoResp)
            ELSE IF ~CheckPassword(q.val.password_hash, r.password)
            THEN HandlerResult(st, StatusError(Unauthenticated, "invalid credentials"), NoResp)
            ELSE HandlerResult(st, NoErr,
                    [token |-> MakeToken(q.val.id, secret), user_id |-> q.val.id,
                     name |-> q.val.name])

Login(st, secret, r) ==
    IF r.email = <<>> \/ r.password = <<>>
    THEN HandlerResult(st, StatusError(InvalidArgument, "email and password required"), NoResp)
    ELSE LET q == UserByEmail(st, r.email)
         IN IF q.err
            THEN HandlerResult(st, StatusError(Unauthenticated, "invalid credentials"), NoResp)
            ELSE IF ~CheckPassword(q.val.password_hash, r.password)
            THEN HandlerResult(st, StatusError(Unauthenticated, "invalid credentials"), NoResp)
            ELSE HandlerResult(st, NoErr,
                    [token |-> MakeToken(q.val.id, secret), user_id |-> q.val.id,
                     name |-> q.val.name])

CreateAppointment(st, userID, r) ==
    IF r.title = <<>>
    THEN HandlerResult(st, StatusError(InvalidArgument, "title required"), NoResp)
    ELSE IF ~r.start_time.present \/ ~r.end_time.present
    THEN HandlerResult(st, StatusError(InvalidArgument, "times required"), NoResp)
    ELSE LET start == AsTime(r.start_time)
             end == AsTime(r.end_time)
         IN IF ~After(end, start)
            THEN HandlerResult(st, StatusError(InvalidArgument, "end must be after start"), NoResp)
            ELSE IF Before(start, TimeAt(Now - PastGrace, 0))
            THEN HandlerResult(st, StatusError(InvalidArgument, "cannot book in the past"), NoResp)
            ELSE LET dup == HasOverlap(st, userID, start, end, <<>>)
                     apt == [id |-> NewUUID(ApptIdPool, ApptIds(st)), title |-> r.title,
                             description |-> r.description, start_time |-> start,
                             end_time |-> end, user_id |-> userID, status |-> Confirmed,
                             location |-> r.location, attendee_ids |-> r.attendee_ids,
                             created_at |-> ZeroTime, updated_at |-> ZeroTime]
                     c == StoreCreateAppointment(st, apt)
                 IN IF dup.err
                    THEN HandlerResult(st, StatusError(Internal, "internal error"), NoResp)
                    ELSE IF dup.val
                    THEN HandlerResult(st, StatusError(AlreadyExists,
                            "time conflicts with existing appointment"), NoResp)
                    ELSE IF c.err
                    THEN HandlerResult(st, StatusError(AlreadyExists,
                            "time conflicts with existing appointment"), NoResp)
                    ELSE HandlerResult(c.store, NoErr, [appointment |-> toProto(apt)])

ListAppointments(st, userID, r) ==
    LET from == IF r.range_start.present THEN AsTime(r.range_start)
                ELSE TimeAt(Now - ListBack, 0)
        to == IF r.range_end.present THEN AsTime(r.range_end)
              ELSE TimeAt(Now + ListAhead, 0)
        q == StoreListAppointments(st, userID, from, to)
    IN IF q.err
       THEN HandlerResult(st, StatusError(Internal, "internal error"), NoResp)
       ELSE HandlerResult(st, NoErr,
                [appointments |-> [i \in 1..Len(q.val) |-> toProto(q.val[i])]])

\* GetAppointment without the test of the owner.
GetAppointmentOfAnyone(st, userID, r) ==
    IF r.id = <<>>
    THEN HandlerResult(st, StatusError(InvalidArgument, "id required"), NoResp)
    ELSE LET q == StoreGetAppointment(st, r.id)
         IN IF q.err
            THEN HandlerResult(st, StatusError(NotFound, "not found"), NoResp)
            ELSE HandlerResult(st, NoErr, [appointment |-> toProto(q.val)])

GetAppointment(st, userID, r) ==
    IF r.id = <<>>
    THEN HandlerResult(st, StatusError(InvalidArgument, "id required"), NoResp)
    ELSE LET q == StoreGetAppointment(st, r.id)
         IN IF q.err
            THEN HandlerResult(st, StatusError(NotFound, "not found"), NoResp)
            ELSE IF q.val.user_id # userID
            THEN HandlerResult(st, StatusError(NotFound, "not found"), NoResp)
            ELSE HandlerResult(st, NoErr, [appointment |-> toProto(q.val)])

UpdateAppointment(st, userID, r) ==
    IF r.id = <<>> \/ r.title = <<>>
    THEN HandlerResult(st, StatusError(InvalidArgument, "id and title required"), NoResp)
    ELSE IF ~r.start_time.present \/ ~r.end_time.present
    THEN HandlerResult(st, StatusError(InvalidArgument, "times required"), NoResp)
    ELSE LET start == AsTime(r.start_time)
             end == AsTime(r.end_time)
         IN IF ~After(end, start)
            THEN HandlerResult(st, StatusError(InvalidArgument, "end must be after start"), NoResp)
            ELSE LET dup == HasOverlap(st, userID, start, end, r.id)
                     apt == [id |-> r.id, title |-> r.title,
                             description |-> r.description, start_time |-> start,
                             end_time |-> end, user_id |-> userID, status |-> <<>>,
                             location |-> r.location, attendee_ids |-> r.attendee_ids,
                             created_at |-> ZeroTime, updated_at |-> ZeroTime]
                     c == StoreUpdateAppointment(st, apt)
                 IN IF dup.err
                    THEN HandlerResult(st, StatusError(Internal, "internal error"), NoResp)
                    ELSE IF dup.val
                    THEN HandlerResult(st, StatusError(AlreadyExists,
                            "time conflicts with existing appointment"), NoResp)
                    ELSE IF c.err
                    THEN HandlerResult(st, StatusError(AlreadyExists,
                            "time conflicts with existing appointment"), NoResp)
                    ELSE HandlerResult(c.store, NoErr, [appointment |-> toProto(apt)])

DeleteAppointment(st, userID, r) ==
    IF r.id = <<>>
    THEN HandlerResult(st, StatusError(InvalidArgument, "id required"), NoResp)
    ELSE LET c == StoreDeleteAppointment(st, r.id, userID)
         IN IF c.err
            THEN HandlerResult(st, StatusError(Internal, "internal error"), NoResp)
            ELSE HandlerResult(c.store, NoErr, [deleted |-> TRUE])

-----------------------------------------------------------------------------
(* internal/grpcweb: the response writer and the two frame writers.        *)
(* A response is [status, contentType, frames]; status 0 means that no     *)
(* status line was written.  A frame is [flag, length, payload]: the flag  *)
(* byte, the number in the 4-byte length field and the bytes after it (a   *)
(* byte sequence in a Data frame, the trailer text in a Trailer frame).    *)

DataFlag == 0
TrailerFlag == 128
StatusOK == 200
StatusMethodNotAllowed == 405
StatusUnsupportedMediaType == 415

NewWriter == [status |-> 0, contentType |-> "", frames |-> <<>>, text |-> ""]

\* A handler that panics: net/http recovers, logs and drops the connection;
\* nothing has been written at any point where the bridge can panic.
Aborted == [status |-> 0, contentType |-> "", frames |-> <<>>, text |-> "aborted"]

Frame(flag, payload) == [flag |-> flag, length |-> Len(payload), payload |-> payload]

\* binary.BigEndian.PutUint32, and the five header bytes and the payload of
\* a frame as the writers lay them out.
PutUint32(n) ==
    <<(n \div 16777216) % 256, (n \div 65536) % 256, (n \div 256) % 256, n % 256>>
FrameBytes(f) == <<f.flag>> \o PutUint32(f.length) \o f.payload

writeError(w, code, msg) ==
    [w EXCEPT !.contentType = "application/grpc-web+proto",
              !.status = StatusOK,
              !.frames = @ \o <<Frame(TrailerFlag,
                    "grpc-status:" \o ToString(code) \o "\r\ngrpc-message:" \o msg \o "\r\n")>>]

\* writeSuccess with a grpc-message line in the trailer.
writeSuccessWithMessage(w, data) ==
    [w EXCEPT !.contentType = "application/grpc-web+proto",
              !.status = StatusOK,
              !.frames = @ \o <<Frame(DataFlag, data),
                                Frame(TrailerFlag, "grpc-status:0\r\ngrpc-message:OK\r\n")>>]

writeSuccess(w, data) ==
    [w EXCEPT !.contentType = "application/grpc-web+proto",
              !.status = StatusOK,
              !.frames = @ \o <<Frame(DataFlag, data),
                                Frame(TrailerFlag, "grpc-status:0\r\n")>>]

-----------------------------------------------------------------------------
(* The Auth Bridge.                                                        *)

Bearer == <<66, 101, 97, 114, 101, 114, 32>>        \* "Bearer "

HasPrefix(s, p) == Len(s) >= Len(p) /\ SubSeq(s, 1, Len(p)) = p
HasSuffix(s, p) == Len(s) >= Len(p) /\ SubSeq(s, Len(s) - Len(p) + 1, Len(s)) = p
TrimPrefix(s, p) == IF HasPrefix(s, p) THEN Drop(s, Len(p)) ELSE s

manualAuth(authHeader, secret) ==
    IF authHeader = <<>>
    THEN [err |-> StatusError(Unauthenticated, "no token"), uid |-> <<>>]
    ELSE LET claims == ParseToken(TrimPrefix(authHeader, Bearer), secret)
         IN IF ~claims.ok
            THEN [err |-> StatusError(Unauthenticated, "bad token"), uid |-> <<>>]
            ELSE [err |-> NoErr, uid |-> claims.uid]

-----------------------------------------------------------------------------
(* The hand-written decode loops.  Every manual* function runs the same    *)
(* loop over its own schema: fields maps a field number to the request     *)
(* field it fills and how (a string, a nested timestamp, one more element  *)
(* of a repeated string); checked says whether the function tests the      *)
(* result of ConsumeFieldValue before it slices.  The result is "ok" with  *)
(* the request, "parse error", or "panic" for a slice with a negative      *)
(* bound.                                                                  *)

RECURSIVE parseTimestampLoop(_, _)
RECURSIVE parseTimestampField(_, _, _)
RECURSIVE parseTimestampVarint(_, _, _, _)
RECURSIVE parseTimestampSkip(_, _, _)

parseTimestampLoop(b, ts) ==
    IF Len(b) = 0 THEN [panic |-> FALSE, ts |-> ts]
    ELSE parseTimestampField(b, ts, ConsumeTag(b))

\* One turn of the loop, t the tag read from b.
parseTimestampField(b, ts, t) ==
    IF t.n < 0 THEN [panic |-> FALSE, ts |-> ts]
    ELSE IF t.num = 1 /\ t.typ = VarintType
    THEN parseTimestampVarint(Drop(b, t.n), ts, "seconds", ConsumeVarint(Drop(b, t.n)))
    ELSE IF t.num = 2 /\ t.typ = VarintType
    THEN parseTimestampVarint(Drop(b, t.n), ts, "nanos", ConsumeVarint(Drop(b, t.n)))
    ELSE parseTimestampSkip(Drop(b, t.n), ts, ConsumeFieldValue(t.num, t.typ, Drop(b, t.n)))

\* ts.Seconds = int64(v) or ts.Nanos = int32(v), then b = b[n:] unchecked.
parseTimestampVarint(b1, ts, name, c) ==
    IF c.n < 0 THEN [panic |-> TRUE, ts |-> ts]
    ELSE parseTimestampLoop(Drop(b1, c.n), [ts EXCEPT ![name] = c.v])

parseTimestampSkip(b1, ts, n) ==
    IF n < 0 THEN [panic |-> FALSE, ts |-> ts]
    ELSE parseTimestampLoop(Drop(b1, n), ts)

parseTimestamp(b) == parseTimestampLoop(b, Ts(0, 0))

Decoded(st, r) == [st |-> st, req |-> r]

RECURSIVE Decode(_, _, _, _)
RECURSIVE DecodeField(_, _, _, _, _)
RECURSIVE DecodeKnown(_, _, _, _, _, _, _)
RECURSIVE DecodeSkip(_, _, _, _, _)

Decode(fields, checked, payload, r) ==
    IF Len(payload) = 0 THEN Decoded("ok", r)
    ELSE DecodeField(fields, checked, payload, r, ConsumeTag(payload))

\* One turn of the loop, t the tag read from payload.
DecodeField(fields, checked, payload, r, t) ==
    IF t.n < 0 THEN Decoded("parse error", r)
    ELSE IF t.typ = BytesType /\ t.num \in DOMAIN fields
    THEN DecodeKnown(fields, checked, Drop(payload, t.n), r, fields[t.num],
                     ConsumeBytes(Drop(payload, t.n)),
                     parseTimestamp(ConsumeBytes(Drop(payload, t.n)).v))
    ELSE DecodeSkip(fields, checked, Drop(payload, t.n), r,
                    ConsumeFieldValue(t.num, t.typ, Drop(payload, t.n)))

\* A field of the schema: v, n := ConsumeBytes(payload), the assignment to
\* the request (pt is parseTimestamp(v)), then payload = payload[n:]
\* unchecked.
DecodeKnown(fields, checked, rest, r, f, c, pt) ==
    IF f.kind = "timestamp" /\ pt.panic THEN Decoded("panic", r)
    ELSE IF c.n < 0 THEN Decoded("panic", r)
    ELSE Decode(fields, checked, Drop(rest, c.n),
            CASE f.kind = "string" -> [r EXCEPT ![f.name] = c.v]
              [] f.kind = "timestamp" -> [r EXCEPT ![f.name] = pt.ts]
              [] f.kind = "repeated" -> [r EXCEPT ![f.name] = Append(@, c.v)])

\* DecodeSkip that ends the loop at the first field it does not know.
DecodeSkipStops(fields, checked, rest, r, n) ==
    IF n < 0
    THEN IF checked THEN Decoded("parse error", r) ELSE Decoded("panic", r)
    ELSE Decoded("ok", r)

\* Any other field: n := ConsumeFieldValue(num, typ, payload), tested only
\* by the functions that are checked, then payload = payload[n:].
DecodeSkip(fields, checked, rest, r, n) ==
    IF n < 0
    THEN IF checked THEN Decoded("parse error", r) ELSE Decoded("panic", r)
    ELSE Decode(fields, checked, Drop(rest, n), r)

Field(name, kind) == [name |-> name, kind |-> kind]

LoginFields == (1 :> Field("email", "string")) @@ (2 :> Field("password", "string"))
RegisterFields ==
    (1 :> Field("email", "string")) @@ (2 :> Field("password", "string"))
        @@ (3 :> Field("name", "string"))
ListFields ==
    (1 :> Field("range_start", "timestamp")) @@ (2 :> Field("range_end", "timestamp"))
CreateFields ==
    (1 :> Field("title", "string")) @@ (2 :> Field("description", "string"))
        @@ (3 :> Field("start_time", "timestamp")) @@ (4 :> Field("end_time", "timestamp"))
        @@ (5 :> Field("location", "string")) @@ (6 :> Field("attendee_ids", "repeated"))
GetFields == (1 :> Field("id", "string"))
UpdateFields ==
    (1 :> Field("id", "string")) @@ (2 :> Field("title", "string"))
        @@ (3 :> Field("description", "string"))
        @@ (4 :> Field("start_time", "timestamp")) @@ (5 :> Field("end_time", "timestamp"))
        @@ (6 :> Field("location", "string")) @@ (7 :> Field("attendee_ids", "repeated"))
DeleteFields == (1 :> Field("id", "string"))

LoginRequest == [email |-> <<>>, password |-> <<>>]
RegisterRequest == [email |-> <<>>, password |-> <<>>, name |-> <<>>]
ListAppointmentsRequest == [range_start |-> NilTs, range_end |-> NilTs]
CreateAppointmentRequest ==
    [title |-> <<>>, description |-> <<>>, start_time |-> NilTs, end_time |-> NilTs,
     location |-> <<>>, attendee_ids |-> <<>>]
GetAppointmentRequest == [id |-> <<>>]
UpdateAppointmentRequest ==
    [id |-> <<>>, title |-> <<>>, description |-> <<>>, start_time |-> NilTs,
     end_time |-> NilTs, location |-> <<>>, attendee_ids |-> <<>>]
DeleteAppointmentRequest == [id |-> <<>>]

-----------------------------------------------------------------------------
(* The Wire Encoder.                                                       *)

appendTimestamp(out, num, ts) ==
    IF ~ts.present THEN out
    ELSE LET in1 == IF ts.seconds # 0
                    THEN AppendVarint(AppendTag(<<>>, 1, VarintType), ts.seconds)
                    ELSE <<>>
             in2 == IF ts.nanos # 0
                    THEN AppendVarint(AppendTag(in1, 2, VarintType), ts.nanos)
                    ELSE in1
         IN AppendBytes(AppendTag(out, num, BytesType), in2)

\* appendAttendees, last attendee first.
RECURSIVE appendAttendeesReversed(_, _)
appendAttendeesReversed(out, atts) ==
    IF Len(atts) = 0 THEN out
    ELSE AppendString(AppendTag(appendAttendeesReversed(out, Tail(atts)), 9, BytesType),
                      Head(atts))

RECURSIVE appendAttendees(_, _)
appendAttendees(out, atts) ==
    IF Len(atts) = 0 THEN out
    ELSE appendAttendees(AppendString(AppendTag(out, 9, BytesType), Head(atts)), Tail(atts))

appendAppointment(out, num, a) ==
    LET i1 == AppendString(AppendTag(<<>>, 1, BytesType), a.id)
        i2 == AppendString(AppendTag(i1, 2, BytesType), a.title)
        i3 == AppendString(AppendTag(i2, 3, BytesType), a.description)
        i4 == appendTimestamp(i3, 4, a.start_time)
        i5 == appendTimestamp(i4, 5, a.end_time)
        i6 == AppendString(AppendTag(i5, 6, BytesType), a.user_id)
        i7 == AppendString(AppendTag(i6, 7, BytesType), a.status)
        i8 == AppendString(AppendTag(i7, 8, BytesType), a.location)
        i9 == appendAttendees(i8, a.attendee_ids)
        i10 == appendTimestamp(i9, 10, a.created_at)
        i11 == appendTimestamp(i10, 11, a.updated_at)
    IN AppendBytes(AppendTag(out, num, BytesType), i11)

RECURSIVE appendAppointments(_, _)
appendAppointments(out, as) ==
    IF Len(as) = 0 THEN out
    ELSE appendAppointments(appendAppointment(out, 1, Head(as)), Tail(as))

-----------------------------------------------------------------------------
(* The seven direct-dispatch functions.  Each returns what serving the     *)
(* request leaves behind: the response w, the store, and the Handler and   *)
(* backend calls it made.                                                  *)

Outcome(w, st, hc, bc) == [w |-> w, store |-> st, hcalls |-> hc, bcalls |-> bc]
Call(op, uid, r, h) == [op |-> op, uid |-> uid, req |-> r, err |-> h.err, resp |-> h.resp]

\* The call on b.direct each function makes.
Direct(op, st, secret, uid, r) ==
    CASE op = "Login" -> Login(st, secret, r)
      [] op = "Register" -> Register(st, secret, r)
      [] op = "ListAppointments" -> ListAppointments(st, uid, r)
      [] op = "CreateAppointment" -> CreateAppointment(st, uid, r)
      [] op = "GetAppointment" -> GetAppointment(st, uid, r)
      [] op = "UpdateAppointment" -> UpdateAppointment(st, uid, r)
      [] op = "DeleteAppointment" -> DeleteAppointment(st, uid, r)

\* The manual encoding of each response.
Encode(op, out) ==
    CASE op = "Login" ->
            AppendString(AppendTag(
                AppendString(AppendTag(
                    AppendString(AppendTag(<<>>, 1, BytesType), out.token),
                    2, BytesType), out.user_id),
                3, BytesType), out.name)
      [] op = "Register" ->
            AppendString(AppendTag(
                AppendString(AppendTag(<<>>, 1, BytesType), out.user_id),
                2, BytesType), out.token)
      [] op = "ListAppointments" -> appendAppointments(<<>>, out.appointments)
      [] op = "DeleteAppointment" -> <<>>
      [] OTHER -> appendAppointment(<<>>, 1, out.appointment)

\* finish with every Handler error reported as Internal.
finishAsInternal(w, op, uid, r, h) ==
    IF h.err # NoErr
    THEN Outcome(writeError(w, Internal, "internal error"),
                 h.store, <<Call(op, uid, r, h)>>, <<>>)
    ELSE Outcome(writeSuccess(w, Encode(op, h.resp)), h.store, <<Call(op, uid, r, h)>>, <<>>)

\* The tail every manual* function shares: the Handler's error goes through
\* status.FromError into writeError, its response through the encoder into
\* writeSuccess.
finish(w, op, uid, r, h) ==
    IF h.err # NoErr
    THEN Outcome(writeError(w, FromError(h.err).code, FromError(h.err).msg),
                 h.store, <<Call(op, uid, r, h)>>, <<>>)
    ELSE Outcome(writeSuccess(w, Encode(op, h.resp)), h.store, <<Call(op, uid, r, h)>>, <<>>)

authFailed(w, st, a) ==
    Outcome(writeError(w, FromError(a.err).code, FromError(a.err).msg), st, <<>>, <<>>)
parseFailed(w, st) == Outcome(writeError(w, InvalidArgument, "parse error"), st, <<>>, <<>>)
panicked(st) == Outcome(Aborted, st, <<>>, <<>>)

\* Login and Register carry no credentials.
NoAuth == [err |-> NoErr, uid |-> <<>>]

\* direct with the decode loop run before the authentication is tested.
decodeFirst(w, st, secret, op, a, d) ==
    IF d.st = "parse error" THEN parseFailed(w, st)
    ELSE IF d.st = "panic" THEN panicked(st)
    ELSE IF a.err # NoErr THEN authFailed(w, st, a)
    ELSE finish(w, op, a.uid, d.req, Direct(op, st, secret, a.uid, d.req))

\* The body the manual* functions share, a the result of manualAuth and d
\* that of the decode loop: the authentication is tested first, the loop
\* runs next, the Handler is called last.
direct(w, st, secret, op, a, d) ==
    IF a.err # NoErr THEN authFailed(w, st, a)
    ELSE IF d.st = "parse error" THEN parseFailed(w, st)
    ELSE IF d.st = "panic" THEN panicked(st)
    ELSE finish(w, op, a.uid, d.req, Direct(op, st, secret, a.uid, d.req))

manualLogin(w, st, secret, payload) ==
    direct(w, st, secret, "Login", NoAuth,
           Decode(LoginFields, TRUE, payload, LoginRequest))

manualRegister(w, st, secret, payload) ==
    direct(w, st, secret, "Register", NoAuth,
           Decode(RegisterFields, TRUE, payload, RegisterRequest))

manualListAppointments(w, st, secret, payload, authHeader) ==
    direct(w, st, secret, "ListAppointments", manualAuth(authHeader, secret),
           Decode(ListFields, TRUE, payload, ListAppointmentsRequest))

manualCreateAppointment(w, st, secret, payload, authHeader) ==
    direct(w, st, secret, "CreateAppointment", manualAuth(authHeader, secret),
           Decode(CreateFields, TRUE, payload, CreateAppointmentRequest))

manualGetAppointment(w, st, secret, payload, authHeader) ==
    direct(w, st, secret, "GetAppointment", manualAuth(authHeader, secret),
           Decode(GetFields, FALSE, payload, GetAppointmentRequest))

manualUpdateAppointment(w, st, secret, payload, authHeader) ==
    direct(w, st, secret, "UpdateAppointment", manualAuth(authHeader, secret),
           Decode(UpdateFields, FALSE, payload, UpdateAppointmentRequest))

manualDeleteAppointment(w, st, secret, payload, authHeader) ==
    direct(w, st, secret, "DeleteAppointment", manualAuth(authHeader, secret),
           Decode(DeleteFields, FALSE, payload, DeleteAppointmentRequest))

-----------------------------------------------------------------------------
(* Bridge.forward and Bridge.Handler.  A request is                        *)
(* [method, contentType, path, auth, body, readFails]: auth is the value   *)
(* of the Authorization header (<<>> when there is none) and readFails     *)
(* says that reading the body fails.  reply is what the backend transport  *)
(* answers if it is invoked: [err, data].                                  *)

Secret == 1                 \* JWT_SECRET, given to the Handler and to the bridge

\* A read of the length field with the byte order reversed.
LittleEndianUint32(b) == ((b[4] * 256 + b[3]) * 256 + b[2]) * 256 + b[1]

BigEndianUint32(b) == ((b[1] * 256 + b[2]) * 256 + b[3]) * 256 + b[4]

\* b[lo:hi] on the buffer io.ReadAll returns: hi may pass the end of what
\* was read, and the bytes there, within the buffer's capacity, are zero.
Slice(b, lo, hi) == [i \in 1..(hi - lo) |-> IF lo + i <= Len(b) THEN b[lo + i] ELSE 0]

\* The chain of strings.HasSuffix tests, in the order of the code.
Route(path) ==
    CASE HasSuffix(path, "/Login") -> "Login"
      [] HasSuffix(path, "/Register") -> "Register"
      [] HasSuffix(path, "/ListAppointments") -> "ListAppointments"
      [] HasSuffix(path, "/CreateAppointment") -> "CreateAppointment"
      [] HasSuffix(path, "/GetAppointment") -> "GetAppointment"
      [] HasSuffix(path, "/UpdateAppointment") -> "UpdateAppointment"
      [] HasSuffix(path, "/DeleteAppointment") -> "DeleteAppointment"
      [] OTHER -> "opaque"

\* invoke with the scheme word taken off the credential.
invokeTrimmed(w, st, r, payload, reply) ==
    LET md == IF r.auth # <<>> THEN <<TrimPrefix(r.auth, Bearer)>> ELSE <<>>
        call == [path |-> r.path, payload |-> payload, md |-> md, reply |-> reply]
    IN IF reply.err # NoErr
       THEN Outcome(writeError(w, FromError(reply.err).code, FromError(reply.err).msg),
                    st, <<>>, <<call>>)
       ELSE Outcome(writeSuccess(w, reply.data), st, <<>>, <<call>>)

\* conn.Invoke with the raw codec: the payload goes out as it is, the
\* transport's answer comes back as it is.  A backend call is logged as
\* [path, payload, md, reply]: what the transport was given and what it
\* answered.
invoke(w, st, r, payload, reply) ==
    LET md == IF r.auth # <<>> THEN <<r.auth>> ELSE <<>>
        call == [path |-> r.path, payload |-> payload, md |-> md, reply |-> reply]
    IN IF reply.err # NoErr
       THEN Outcome(writeError(w, FromError(reply.err).code, FromError(reply.err).msg),
                    st, <<>>, <<call>>)
       ELSE Outcome(writeSuccess(w, reply.data), st, <<>>, <<call>>)

\* FrameCheck with the length test off by one.
FrameCheckOffByOne(body) ==
    IF Len(body) < 5 THEN "body too short"
    ELSE IF BigEndianUint32(SubSeq(body, 2, 5)) + 5 > Len(body) + 1 THEN "incomplete frame"
    ELSE "ok"

\* The two tests of forward on the body it has read.
FrameCheck(body) ==
    IF Len(body) < 5 THEN "body too short"
    ELSE IF BigEndianUint32(SubSeq(body, 2, 5)) + 5 > Len(body) THEN "incomplete frame"
    ELSE "ok"

forward(w, st, secret, r, reply) ==
    LET msgLen == BigEndianUint32(SubSeq(r.body, 2, 5))
        payload == Slice(r.body, 5, 5 + msgLen)
        route == Route(r.path)
    IN IF r.readFails THEN Outcome(writeError(w, Internal, "read body failed"), st, <<>>, <<>>)
       ELSE IF FrameCheck(r.body) # "ok"
       THEN Outcome(writeError(w, InvalidArgument, FrameCheck(r.body)), st, <<>>, <<>>)
       ELSE CASE route = "Login" -> manualLogin(w, st, secret, payload)
              [] route = "Register" -> manualRegister(w, st, secret, payload)
              [] route = "ListAppointments" ->
                    manualListAppointments(w, st, secret, payload, r.auth)
              [] route = "CreateAppointment" ->
                    manualCreateAppointment(w, st, secret, payload, r.auth)
              [] route = "GetAppointment" ->
                    manualGetAppointment(w, st, secret, payload, r.auth)
              [] route = "UpdateAppointment" ->
                    manualUpdateAppointment(w, st, secret, payload, r.auth)
              [] route = "DeleteAppointment" ->
                    manualDeleteAppointment(w, st, secret, payload, r.auth)
              [] OTHER -> invoke(w, st, r, payload, reply)

\* http.Error: a plain-text body under a real HTTP status.
httpError(w, text, code) ==
    [w EXCEPT !.contentType = "text/plain; charset=utf-8", !.status = code, !.text = text]

\* Handler with the content type tested before the method.
HandlerContentTypeFirst(st, secret, r, reply) ==
    IF r.method = "OPTIONS"
    THEN Outcome([NewWriter EXCEPT !.status = StatusOK], st, <<>>, <<>>)
    ELSE IF ~HasPrefix(r.contentType, "application/grpc-web")
    THEN Outcome(httpError(NewWriter, "not grpc-web", StatusUnsupportedMediaType),
                 st, <<>>, <<>>)
    ELSE IF r.method # "POST"
    THEN Outcome(httpError(NewWriter, "method not allowed", StatusMethodNotAllowed),
                 st, <<>>, <<>>)
    ELSE forward(NewWriter, st, secret, r, reply)

\* The function Bridge.Handler returns.
Handler(st, secret, r, reply) ==
    IF r.method = "OPTIONS"
    THEN Outcome([NewWriter EXCEPT !.status = StatusOK], st, <<>>, <<>>)
    ELSE IF r.method # "POST"
    THEN Outcome(httpError(NewWriter, "method not allowed", StatusMethodNotAllowed),
                 st, <<>>, <<>>)
    ELSE IF ~HasPrefix(r.contentType, "application/grpc-web")
    THEN Outcome(httpError(NewWriter, "not grpc-web", StatusUnsupportedMediaType),
                 st, <<>>, <<>>)
    ELSE forward(NewWriter, st, secret, r, reply)

-----------------------------------------------------------------------------
(* The requests the model serves.                                          *)

MaxLen == 2             \* longest payload enumerated byte by byte

\* Bytes that matter to the decoder: a zero, a one, the tags of field 1 as
\* a varint (8) and as a string (10), the tag of field 15 as a string (122),
\* and a byte with the continuation bit set.
RawBytes == {0, 1, 8, 10, 122, 128}
RawPayloads == SeqsUpTo(RawBytes, MaxLen)

EncString(num, v) == AppendString(AppendTag(<<>>, num, BytesType), v)
EncTs(num, s) == appendTimestamp(<<>>, num, Ts(s, 0))

Email1 == <<101, 49>>
Email2 == <<101, 50>>
Email3 == <<101, 51>>
Password1 == <<112, 97, 115, 115, 119, 111, 114, 100>>
Password2 == <<108, 101, 116, 109, 101, 105, 110, 33>>
Name1 == <<65>>
Title1 == <<116>>
Title2 == <<117>>
User1 == UserIdPool[1]
User2 == UserIdPool[2]
SlotStart == Now + 1000
SlotEnd == Now + 2000

\* Well-formed messages, longer than MaxLen, and four malformed ones.
LoginMessages ==
    { EncString(1, Email1) \o EncString(2, Password1),
      EncString(1, Email1) \o EncString(2, Password2),
      EncString(1, Email3) \o EncString(2, Password1) }
RegisterMessages ==
    { EncString(1, Email3) \o EncString(2, Password1) \o EncString(3, Name1),
      EncString(1, Email1) \o EncString(2, Password1) \o EncString(3, Name1),
      EncString(1, Email3) \o EncString(2, <<112>>) \o EncString(3, Name1) }
CreateMessages ==
    { EncString(1, Title1) \o EncTs(3, SlotStart) \o EncTs(4, SlotEnd),
      EncString(1, Title1) \o EncTs(3, 100) \o EncTs(4, 200),
      EncString(1, Title1) \o EncTs(3, SlotStart) \o EncTs(4, SlotEnd)
          \o EncString(6, <<122>>),
      \* the slot next to it, and a slot across the two
      EncString(1, Title1) \o EncTs(3, SlotEnd) \o EncTs(4, SlotEnd + 1000),
      EncString(1, Title1) \o EncTs(3, SlotStart + 500) \o EncTs(4, SlotEnd + 500) }
UpdateMessages ==
    { EncString(1, ApptIdPool[1]) \o EncString(2, Title1)
          \o EncTs(4, SlotStart) \o EncTs(5, SlotEnd),
      EncString(1, ApptIdPool[4]) \o EncString(2, Title1)
          \o EncTs(4, SlotStart) \o EncTs(5, SlotEnd),
      \* the first appointment renamed and moved across two slots
      EncString(1, ApptIdPool[1]) \o EncString(2, Title2)
          \o EncTs(4, SlotStart + 500) \o EncTs(5, SlotEnd + 500) }
IdMessages == { EncString(1, ApptIdPool[i]) : i \in {1, 2, 4} }
ListMessages == { EncTs(1, 0) \o EncTs(2, 5000) }
MalformedMessages ==
    { <<10, 1, 8>>,         \* field 1, one byte long: a varint tag and no value
      <<10, 1, 0>>,         \* field 1, one byte long: field number 0
      <<26, 1, 8>>,         \* field 3, the same
      <<10, 3, 116>> }      \* field 1 claims three bytes, one follows

Payloads ==
    RawPayloads \cup LoginMessages \cup RegisterMessages \cup CreateMessages
        \cup UpdateMessages \cup IdMessages \cup ListMessages \cup MalformedMessages

\* One well-formed message of each direct-dispatch schema, field by field.
KnownFields(op) ==
    CASE op = "Login" -> <<EncString(1, Email1), EncString(2, Password1)>>
      [] op = "Register" ->
            <<EncString(1, Email3), EncString(2, Password1), EncString(3, Name1)>>
      [] op = "ListAppointments" -> <<EncTs(1, 0), EncTs(2, 5000)>>
      [] op = "CreateAppointment" ->
            <<EncString(1, Title1), EncTs(3, SlotStart), EncTs(4, SlotEnd),
              EncString(6, User2)>>
      [] op = "UpdateAppointment" ->
            <<EncString(1, ApptIdPool[1]), EncString(2, Title1),
              EncTs(4, SlotStart), EncTs(5, SlotEnd)>>
      [] OTHER -> <<EncString(1, ApptIdPool[1])>>

\* Field 15, which no schema has, once in every wire type: a varint, eight
\* bytes, a string, an empty group, a group around a varint, four bytes.
UnknownFields ==
    { AppendVarint(AppendTag(<<>>, 15, VarintType), 300),
      AppendTag(<<>>, 15, Fixed64Type) \o <<1, 2, 3, 4, 5, 6, 7, 8>>,
      EncString(15, <<8, 10>>),
      AppendTag(<<>>, 15, StartGroupType) \o AppendTag(<<>>, 15, EndGroupType),
      AppendTag(<<>>, 15, StartGroupType)
          \o AppendVarint(AppendTag(<<>>, 1, VarintType), 1)
          \o AppendTag(<<>>, 15, EndGroupType),
      AppendTag(<<>>, 15, Fixed32Type) \o <<1, 2, 3, 4>> }

\* The fields fs with x put in after the first i of them.
Insert(fs, i, x) == Concat(SubSeq(fs, 1, i)) \o x \o Concat(SubSeq(fs, i + 1, Len(fs)))

DirectMethods ==
    {"Login", "Register", "ListAppointments", "CreateAppointment",
     "GetAppointment", "UpdateAppointment", "DeleteAppointment"}
PathOf(op) == "/appointment.v1.ScheduleService/" \o op

Uint32Bytes(n) == <<0, 0, n \div 256, n % 256>>
DataFrame(p) == <<DataFlag>> \o Uint32Bytes(Len(p)) \o p

\* Bodies that are no frame, frames whose length field claims more than
\* there is, and a frame with bytes after it.
BadBodies ==
    { <<>>, <<0>>, <<0, 0, 0, 0>>,
      <<0, 0, 0, 0, 1>>, <<0, 0, 0, 0, 3, 10, 0>>, <<0, 0, 0, 1, 0>>, <<0, 0, 1, 0, 0, 122>> }
LongBodies == { DataFrame(<<10, 0>>) \o <<1>>, <<TrailerFlag>> \o Uint32Bytes(0) }

Paths ==
    { "/appointment.v1.ScheduleService/Login",
      "/appointment.v1.ScheduleService/Register",
      "/appointment.v1.ScheduleService/ListAppointments",
      "/appointment.v1.ScheduleService/CreateAppointment",
      "/appointment.v1.ScheduleService/GetAppointment",
      "/appointment.v1.ScheduleService/UpdateAppointment",
      "/appointment.v1.ScheduleService/DeleteAppointment",
      "/appointment.v1.ScheduleService/Refresh",
      "/other.v1.Service/GetAppointment",
      "/other.v1.Service/Login",
      "/grpc.health.v1.Health/Check" }

OtherSecret == Secret + 1      \* some other key
Credentials ==
    { MakeToken(User1, Secret),
      MakeToken(User2, Secret),
      MakeToken(User1, OtherSecret),
      SignedToken(AlgHS384, Now + TokenLifetime, Secret, User1),
      SignedToken(AlgRS256, Now + TokenLifetime, Secret, User1),
      SignedToken(AlgNone, Now + TokenLifetime, Secret, User1),
      SignedToken(AlgHS256, Now - 1, Secret, User1),
      <<110, 111, 116, 46, 97, 46, 116, 111, 107, 101, 110>> }    \* "not.a.token"
AuthHeaders ==
    {<<>>, Bearer, MakeToken(User1, Secret)} \cup {Bearer \o c : c \in Credentials}
FewAuthHeaders == {<<>>, Bearer \o MakeToken(User1, Secret)}

Request(method, ct, path, auth, body, readFails) ==
    [method |-> method, contentType |-> ct, path |-> path, auth |-> auth,
     body |-> body, readFails |-> readFails]

GrpcWebProto == "application/grpc-web+proto"

\* Every payload on every path; every credential on every path; every
\* broken body on every path; every method and content type.
DecodeRequests ==
    { Request("POST", GrpcWebProto, p, a, DataFrame(b), FALSE) :
        p \in Paths, a \in FewAuthHeaders, b \in Payloads }
AuthRequests ==
    { Request("POST", GrpcWebProto, p, a, DataFrame(b), FALSE) :
        p \in Paths, a \in AuthHeaders,
        b \in {<<>>, <<0>>, <<10, 1>>, EncString(1, ApptIdPool[1]),
               EncString(1, Title1) \o EncTs(3, SlotStart) \o EncTs(4, SlotEnd)} }
FrameRequests ==
    { Request("POST", GrpcWebProto, p, a, b, FALSE) :
        p \in Paths, a \in FewAuthHeaders, b \in BadBodies \cup LongBodies }
    \cup { Request("POST", GrpcWebProto, p, <<>>, DataFrame(<<>>), TRUE) : p \in Paths }
GateRequests ==
    { Request(m, ct, p, a, b, FALSE) :
        m \in {"OPTIONS", "GET", "PUT", "POST"},
        ct \in {"", "application/json", "application/grpc-web",
                "application/grpc-web+proto", "application/grpc-web-text"},
        p \in {"/appointment.v1.ScheduleService/ListAppointments",
               "/grpc.health.v1.Health/Check"},
        a \in FewAuthHeaders,
        b \in {DataFrame(<<>>), <<>>} }
\* Each well-formed message with one unknown field at each position, sent to
\* its own method.
UnknownFieldRequests ==
    UNION { { Request("POST", GrpcWebProto, PathOf(op), a,
                      DataFrame(Insert(KnownFields(op), i, x)), FALSE) :
                i \in 0..Len(KnownFields(op)), x \in UnknownFields, a \in FewAuthHeaders } :
            op \in DirectMethods }
\* The second user's update, addressed to an appointment of the first.
OwnershipRequests ==
    { Request("POST", GrpcWebProto, PathOf("UpdateAppointment"),
              Bearer \o MakeToken(User2, Secret),
              DataFrame(EncString(1, ApptIdPool[1]) \o EncString(2, Title1)
                            \o EncTs(4, SlotStart) \o EncTs(5, SlotEnd)),
              FALSE) }
Requests ==
    DecodeRequests \cup AuthRequests \cup FrameRequests \cup GateRequests
        \cup UnknownFieldRequests \cup OwnershipRequests

\* What the backend transport may answer: bytes, the status errors of the
\* two interceptors in front of the backend, and a failure that carries no
\* status (gRPC reports such a failure as Unknown with the error's own
\* text, which is also what status.FromError makes of it).
Reply(err, data) == [err |-> err, data |-> data]
BackendReplies ==
    { Reply(NoErr, <<>>), Reply(NoErr, <<10, 1, 120>>),
      Reply(StatusError(Unauthenticated, "no token"), <<>>),
      Reply(StatusError(ResourceExhausted, "too many requests"), <<>>),
      Reply(PlainError("dial tcp 10.0.0.7:50051: i/o timeout"), <<>>) }
NoReply == Reply(NoErr, <<>>)

-----------------------------------------------------------------------------
(* The state machine.                                                      *)

NoReq == Request("", "", "", <<>>, <<>>, FALSE)

\* The peers of the gRPC listener, and the limiter main builds:
\* middleware.NewRateLimiter(5, 10).  A client's limiter is made on its
\* first call, with a full bucket.
Burst == 10
Clients == {"10.0.0.1:40000", "10.0.0.2:40000"}
NewRateLimiter == [c \in Clients |-> Burst]

\* Two registered users: the store after two successful Register calls.
SeedUsers ==
    { [id |-> User1, email |-> Email1, password_hash |-> HashPassword(Password1),
       name |-> Name1],
      [id |-> User2, email |-> Email2, password_hash |-> HashPassword(Password2),
       name |-> Name1] }

Init ==
    /\ store = [users |-> SeedUsers, appts |-> {}, attendees |-> {},
                refresh_tokens |-> {}]
    /\ req = NoReq
    /\ resp = NewWriter
    /\ handlerCalls = <<>>
    /\ backendCalls = <<>>
    /\ phase = "idle"
    /\ calls = <<>>
    /\ limiter = NewRateLimiter

\* Where Bridge.Handler and Bridge.forward take request r.
Branch(r) ==
    IF r.method = "OPTIONS" THEN "preflight"
    ELSE IF r.method # "POST" THEN "method"
    ELSE IF ~HasPrefix(r.contentType, "application/grpc-web") THEN "content type"
    ELSE IF r.readFails THEN "read"
    ELSE IF FrameCheck(r.body) # "ok" THEN "frame"
    ELSE Route(r.path)

\* Serving r: the whole of the handler, in one step.
Served(r, o) ==
    /\ Cardinality(o.store.users) <= MaxUsers
    /\ Cardinality(o.store.appts) <= MaxAppts
    /\ req' = r
    /\ resp' = o.w
    /\ store' = o.store
    /\ handlerCalls' = o.hcalls
    /\ backendCalls' = o.bcalls
    /\ phase' = "served"
    /\ UNCHANGED <<calls, limiter>>

Serve(r, reply) == Served(r, Handler(store, Secret, r, reply))

\* The requests that take each branch.
On(b) == {r \in Requests : Branch(r) = b}
PreflightRequests == On("preflight")
BadMethodRequests == On("method")
BadContentTypeRequests == On("content type")
UnreadableRequests == On("read")
BadFrameRequests == On("frame")
LoginRequests == On("Login")
RegisterRequests == On("Register")
ListRequests == On("ListAppointments")
CreateRequests == On("CreateAppointment")
GetRequests == On("GetAppointment")
UpdateRequests == On("UpdateAppointment")
DeleteRequests == On("DeleteAppointment")
OpaqueRequests == On("opaque")

Preflight == phase = "idle" /\ \E r \in PreflightRequests : Serve(r, NoReply)
RejectMethod == phase = "idle" /\ \E r \in BadMethodRequests : Serve(r, NoReply)
RejectContentType == phase = "idle" /\ \E r \in BadContentTypeRequests : Serve(r, NoReply)
ReadFails == phase = "idle" /\ \E r \in UnreadableRequests : Serve(r, NoReply)
RejectFrame == phase = "idle" /\ \E r \in BadFrameRequests : Serve(r, NoReply)
ServeLogin == phase = "idle" /\ \E r \in LoginRequests : Serve(r, NoReply)
ServeRegister == phase = "idle" /\ \E r \in RegisterRequests : Serve(r, NoReply)
ServeListAppointments == phase = "idle" /\ \E r \in ListRequests : Serve(r, NoReply)
ServeCreateAppointment == phase = "idle" /\ \E r \in CreateRequests : Serve(r, NoReply)
ServeGetAppointment == phase = "idle" /\ \E r \in GetRequests : Serve(r, NoReply)
ServeUpdateAppointment == phase = "idle" /\ \E r \in UpdateRequests : Serve(r, NoReply)
ServeDeleteAppointment == phase = "idle" /\ \E r \in DeleteRequests : Serve(r, NoReply)
ServeOpaque ==
    phase = "idle" /\ \E r \in OpaqueRequests, reply \in BackendReplies : Serve(r, reply)

\* The response has gone out; the bridge keeps nothing of the request.
Respond ==
    /\ phase = "served"
    /\ req' = NoReq
    /\ resp' = NewWriter
    /\ handlerCalls' = <<>>
    /\ backendCalls' = <<>>
    /\ phase' = "idle"
    /\ UNCHANGED <<store, calls, limiter>>

Next ==
    \/ Preflight \/ RejectMethod \/ RejectContentType \/ ReadFails \/ RejectFrame
    \/ ServeLogin \/ ServeRegister \/ ServeListAppointments \/ ServeCreateAppointment
    \/ ServeGetAppointment \/ ServeUpdateAppointment \/ ServeDeleteAppointment
    \/ ServeOpaque
    \/ Respond

Spec == Init /\ [][Next]_vars

-----------------------------------------------------------------------------
(* The Wire Encoder on its own.  What each manual* function does once the  *)
(* Handler has returned a response, for responses chosen freely: the       *)
(* Handler is whatever the bridge was built with.                          *)

Texts == {<<>>, <<97>>, <<97, 98, 99>>}
Timestamps == {NilTs, Ts(0, 0), Ts(5, 0), Ts(0, 7), Ts(300, 999999999)}

LoginResponses == [token : Texts, user_id : Texts, name : Texts]
RegisterResponses == [user_id : Texts, token : Texts]
Appointments ==
    [id : {<<>>, <<97>>}, title : {<<>>, <<116>>}, description : {<<>>},
     start_time : Timestamps, end_time : {NilTs, Ts(5, 7)},
     user_id : {<<97>>}, status : {<<>>, <<99>>}, location : {<<>>},
     attendee_ids : {<<>>, << <<97>> >>, << <<98>>, <<97>> >>, << <<97>>, <<>>, <<97>> >>},
     created_at : {NilTs, Ts(1, 0)}, updated_at : {Ts(0, 0)}]
ListedAppointments ==
    {a \in Appointments : a.id # <<>> /\ a.title # <<>> /\ a.status # <<>>
                            /\ Len(a.attendee_ids) <= 1 /\ a.created_at.present}
AppointmentLists == SeqsUpTo(ListedAppointments, 2)

\* The request of method op with an empty message.
EmptyRequest(op) ==
    Request("POST", GrpcWebProto, PathOf(op), <<>>, DataFrame(<<>>), FALSE)

\* b.direct.<op> returned out and no error.
Returned(op, out) ==
    Served(EmptyRequest(op),
           finish(NewWriter, op, <<>>, <<>>, HandlerResult(store, NoErr, out)))

ReturnLogin == phase = "idle" /\ \E out \in LoginResponses : Returned("Login", out)
ReturnRegister == phase = "idle" /\ \E out \in RegisterResponses : Returned("Register", out)
ReturnAppointment ==
    /\ phase = "idle"
    /\ \E op \in {"CreateAppointment", "GetAppointment", "UpdateAppointment"},
          a \in Appointments : Returned(op, [appointment |-> a])
ReturnAppointments ==
    /\ phase = "idle"
    /\ \E as \in AppointmentLists : Returned("ListAppointments", [appointments |-> as])

EncoderNext ==
    \/ ReturnLogin \/ ReturnRegister \/ ReturnAppointment \/ ReturnAppointments
    \/ Respond

EncoderSpec == Init /\ [][EncoderNext]_vars

-----------------------------------------------------------------------------
(* Concurrent callers.  gRPC serves every request in a goroutine of its    *)
(* own, so calls of Handler.CreateAppointment and Handler.UpdateAppointment*)
(* on the one Handler interleave.  A call is three steps: the argument     *)
(* checks, the HasOverlap query, the store transaction.  The query and the *)
(* transaction are one step each: PostgreSQL makes a writer whose row      *)
(* conflicts with a row of an open transaction wait until that transaction *)
(* has ended, so transactions take effect one after another.               *)

MaxCalls == 3           \* calls begun in one behaviour

Slot(s, e) == [start_time |-> Ts(s, 0), end_time |-> Ts(e, 0)]
\* A slot, the slot next to it, and a slot across the two.
RaceSlots ==
    { Slot(SlotStart, SlotEnd), Slot(SlotEnd, SlotEnd + 1000),
      Slot(SlotStart + 500, SlotEnd + 500) }

RaceCreate(title, slot) ==
    [CreateAppointmentRequest EXCEPT !.title = title, !.start_time = slot.start_time,
                                     !.end_time = slot.end_time]
RaceUpdate(id, slot) ==
    [UpdateAppointmentRequest EXCEPT !.id = id, !.title = Title1,
                                     !.start_time = slot.start_time,
                                     !.end_time = slot.end_time]

\* The calls made: the first user creates in every slot, once without a
\* title, and moves the first appointment; the second user creates in the
\* first slot.
RaceCalls ==
    { [op |-> "CreateAppointment", uid |-> User1, req |-> RaceCreate(Title1, s)] :
        s \in RaceSlots }
    \cup { [op |-> "CreateAppointment", uid |-> User1,
            req |-> RaceCreate(<<>>, Slot(SlotStart, SlotEnd))],
           [op |-> "CreateAppointment", uid |-> User2,
            req |-> RaceCreate(Title1, Slot(SlotStart, SlotEnd))] }
    \cup { [op |-> "UpdateAppointment", uid |-> User1, req |-> RaceUpdate(ApptIdPool[1], s)] :
             s \in RaceSlots }

\* The argument checks of CreateAppointment and of UpdateAppointment: the
\* error returned before the store is touched, NoErr if none.
CreateArguments(r) ==
    IF r.title = <<>> THEN StatusError(InvalidArgument, "title required")
    ELSE IF ~r.start_time.present \/ ~r.end_time.present
    THEN StatusError(InvalidArgument, "times required")
    ELSE IF ~After(AsTime(r.end_time), AsTime(r.start_time))
    THEN StatusError(InvalidArgument, "end must be after start")
    ELSE IF Before(AsTime(r.start_time), TimeAt(Now - PastGrace, 0))
    THEN StatusError(InvalidArgument, "cannot book in the past")
    ELSE NoErr

UpdateArguments(r) ==
    IF r.id = <<>> \/ r.title = <<>>
    THEN StatusError(InvalidArgument, "id and title required")
    ELSE IF ~r.start_time.present \/ ~r.end_time.present
    THEN StatusError(InvalidArgument, "times required")
    ELSE IF ~After(AsTime(r.end_time), AsTime(r.start_time))
    THEN StatusError(InvalidArgument, "end must be after start")
    ELSE NoErr

\* A call that has done its argument checks with error err; passed says
\* whether HasOverlap has answered that there is no overlap.
Begun(c, err) ==
    [op |-> c.op, uid |-> c.uid, req |-> c.req,
     pc |-> IF err = NoErr THEN "check" ELSE "done", passed |-> FALSE, err |-> err]
Return(call, err) == [call EXCEPT !.pc = "done", !.err = err]
Conflict == StatusError(AlreadyExists, "time conflicts with existing appointment")

\* The model.Appointment each operation hands to the store.
CreateRow(st, call) ==
    [id |-> NewUUID(ApptIdPool, ApptIds(st)), title |-> call.req.title,
     description |-> call.req.description, start_time |-> AsTime(call.req.start_time),
     end_time |-> AsTime(call.req.end_time), user_id |-> call.uid, status |-> Confirmed,
     location |-> call.req.location, attendee_ids |-> call.req.attendee_ids,
     created_at |-> ZeroTime, updated_at |-> ZeroTime]
UpdateRow(call) ==
    [id |-> call.req.id, title |-> call.req.title,
     description |-> call.req.description, start_time |-> AsTime(call.req.start_time),
     end_time |-> AsTime(call.req.end_time), user_id |-> call.uid, status |-> <<>>,
     location |-> call.req.location, attendee_ids |-> call.req.attendee_ids,
     created_at |-> ZeroTime, updated_at |-> ZeroTime]

Begin(c, err) ==
    /\ phase = "idle"
    /\ Len(calls) < MaxCalls
    /\ calls' = Append(calls, Begun(c, err))
    /\ UNCHANGED <<store, req, resp, handlerCalls, backendCalls, phase, limiter>>

BeginCreate ==
    \E c \in RaceCalls : c.op = "CreateAppointment" /\ Begin(c, CreateArguments(c.req))
BeginUpdate ==
    \E c \in RaceCalls : c.op = "UpdateAppointment" /\ Begin(c, UpdateArguments(c.req))

\* h.store.HasOverlap and the two tests of its result.
Checked(call, dup) ==
    IF dup.err THEN Return(call, StatusError(Internal, "internal error"))
    ELSE IF dup.val THEN Return(call, Conflict)
    ELSE [call EXCEPT !.pc = "write", !.passed = TRUE]

CheckOverlap ==
    \E i \in 1..Len(calls) :
        /\ calls[i].pc = "check"
        /\ calls' = [calls EXCEPT ![i] =
                Checked(@, HasOverlap(store, @.uid, AsTime(@.req.start_time),
                                      AsTime(@.req.end_time),
                                      IF @.op = "UpdateAppointment" THEN @.req.id ELSE <<>>))]
        /\ UNCHANGED <<store, req, resp, handlerCalls, backendCalls, phase, limiter>>

\* Written with the store's error reported as Internal.
WrittenAsInternal(i, c) ==
    /\ store' = c.store
    /\ calls' = [calls EXCEPT ![i] =
            Return(@, IF c.err THEN StatusError(Internal, "internal error") ELSE NoErr)]
    /\ UNCHANGED <<req, resp, handlerCalls, backendCalls, phase, limiter>>

\* The store transaction c and the test of its error.
Written(i, c) ==
    /\ store' = c.store
    /\ calls' = [calls EXCEPT ![i] = Return(@, IF c.err THEN Conflict ELSE NoErr)]
    /\ UNCHANGED <<req, resp, handlerCalls, backendCalls, phase, limiter>>

WriteCreate ==
    \E i \in 1..Len(calls) :
        /\ calls[i].pc = "write"
        /\ calls[i].op = "CreateAppointment"
        /\ Written(i, StoreCreateAppointment(store, CreateRow(store, calls[i])))

WriteUpdate ==
    \E i \in 1..Len(calls) :
        /\ calls[i].pc = "write"
        /\ calls[i].op = "UpdateAppointment"
        /\ Written(i, StoreUpdateAppointment(store, UpdateRow(calls[i])))

RaceNext == BeginCreate \/ BeginUpdate \/ CheckOverlap \/ WriteCreate \/ WriteUpdate

RaceSpec == Init /\ [][RaceNext]_vars

-----------------------------------------------------------------------------
(* The gRPC listener.  main registers the Handler on a grpc.Server behind  *)
(* the chain RateLimit, Auth, and hands the same Handler to the bridge,    *)
(* whose manual* functions call it directly.                               *)

\* The methods RateLimit limits, and the methods Auth lets through.
limited == {PathOf("Register"), PathOf("Login")}
open == {PathOf("Register"), PathOf("Login")}

\* What an interceptor hands on: its error, the limiter, the caller.
Passed(err, lim, uid) == [err |-> err, limiter |-> lim, uid |-> uid]

\* middleware.RateLimit: rl.get(ip).Allow() takes a token of the peer's
\* bucket when there is one.
RateLimit(lim, method, peer) ==
    IF method \notin limited THEN Passed(NoErr, lim, <<>>)
    ELSE IF lim[peer] = 0
    THEN Passed(StatusError(ResourceExhausted, "too many requests"), lim, <<>>)
    ELSE Passed(NoErr, [lim EXCEPT ![peer] = @ - 1], <<>>)

\* The incoming metadata: the values of its authorization key.
Metadata(vals) == [ok |-> TRUE, authorization |-> vals]
MetadataOf(header) == Metadata(IF header = <<>> THEN <<>> ELSE <<header>>)

\* middleware.Auth.
Auth(secret, method, md) ==
    IF method \in open THEN [err |-> NoErr, uid |-> <<>>]
    ELSE IF ~md.ok
    THEN [err |-> StatusError(Unauthenticated, "missing metadata"), uid |-> <<>>]
    ELSE LET raw == IF Len(md.authorization) > 0
                    THEN TrimPrefix(md.authorization[1], Bearer) ELSE <<>>
         IN IF raw = <<>>
            THEN [err |-> StatusError(Unauthenticated, "no token"), uid |-> <<>>]
            ELSE LET claims == ParseToken(raw, secret)
                 IN IF ~claims.ok
                    THEN [err |-> StatusError(Unauthenticated, "bad token"), uid |-> <<>>]
                    ELSE [err |-> NoErr, uid |-> claims.uid]

\* A unary call on the listener: the two interceptors, then the Handler.
NativeCall(op, md, peer, msg) == [op |-> op, md |-> md, peer |-> peer, req |-> msg]
NativeReply(c, err) == [op |-> c.op, md |-> c.md, peer |-> c.peer, req |-> c.req, err |-> err]

Unary(c) ==
    LET rl == RateLimit(limiter, PathOf(c.op), c.peer)
        au == Auth(Secret, PathOf(c.op), c.md)
        h == Direct(c.op, store, Secret, au.uid, c.req)
    IN /\ phase' = "served"
       /\ limiter' = rl.limiter
       /\ UNCHANGED <<req, resp, backendCalls>>
       /\ IF rl.err # NoErr
          THEN calls' = <<NativeReply(c, rl.err)>> /\ handlerCalls' = <<>>
                    /\ UNCHANGED store
          ELSE IF au.err # NoErr
          THEN calls' = <<NativeReply(c, au.err)>> /\ handlerCalls' = <<>>
                    /\ UNCHANGED store
          ELSE /\ Cardinality(h.store.users) <= MaxUsers
               /\ calls' = <<NativeReply(c, h.err)>>
               /\ handlerCalls' = <<Call(c.op, au.uid, c.req, h)>>
               /\ store' = h.store

NativeLogins ==
    { NativeCall("Login", Metadata(<<>>), p, [email |-> e, password |-> w]) :
        p \in Clients, e \in {Email1, Email3}, w \in {Password1, Password2} }
NativeRegisters ==
    { NativeCall("Register", Metadata(<<>>), p,
                 [email |-> Email3, password |-> Password1, name |-> Name1]) :
        p \in Clients }
NativeGets ==
    { NativeCall("GetAppointment", MetadataOf(a), p, [id |-> ApptIdPool[1]]) :
        p \in Clients, a \in AuthHeaders }

NativeLogin == phase = "idle" /\ \E c \in NativeLogins : Unary(c)
NativeRegister == phase = "idle" /\ \E c \in NativeRegisters : Unary(c)
NativeGetAppointment == phase = "idle" /\ \E c \in NativeGets : Unary(c)

\* The same calls arriving at the bridge.
BridgeRequests(op, headers, messages) ==
    { Request("POST", GrpcWebProto, PathOf(op), a, DataFrame(m), FALSE) :
        a \in headers, m \in messages }
BridgeLogin ==
    /\ phase = "idle"
    /\ \E r \in BridgeRequests("Login", {<<>>}, LoginMessages) : Serve(r, NoReply)
BridgeRegister ==
    /\ phase = "idle"
    /\ \E r \in BridgeRequests("Register", {<<>>}, RegisterMessages) : Serve(r, NoReply)
BridgeGetAppointment ==
    /\ phase = "idle"
    /\ \E r \in BridgeRequests("GetAppointment", AuthHeaders,
                                {EncString(1, ApptIdPool[1])}) : Serve(r, NoReply)

\* Time passes: a bucket gains a token, up to its burst.
Refill ==
    /\ phase = "idle"
    /\ \E c \in Clients :
            /\ limiter[c] < Burst
            /\ limiter' = [limiter EXCEPT ![c] = @ + 1]
    /\ UNCHANGED <<store, req, resp, handlerCalls, backendCalls, phase, calls>>

\* The reply leaves.
Delivered ==
    /\ phase = "served"
    /\ req' = NoReq
    /\ resp' = NewWriter
    /\ handlerCalls' = <<>>
    /\ backendCalls' = <<>>
    /\ calls' = <<>>
    /\ phase' = "idle"
    /\ UNCHANGED <<store, limiter>>

ListenerNext ==
    \/ NativeLogin \/ NativeRegister \/ NativeGetAppointment
    \/ BridgeLogin \/ BridgeRegister \/ BridgeGetAppointment
    \/ Refill \/ Delivered

ListenerSpec == Init /\ [][ListenerNext]_vars

-----------------------------------------------------------------------------
(* Refresh tokens.  RotateRefreshToken runs its two statements in one      *)
(* transaction of the pool; other operations read the committed table.     *)
(* A call holds the writes of its open transaction until it commits.       *)

MaxTokens == 2
TokenIdPool == <<<<31>>, <<32>>, <<33>>, <<34>>, <<35>>>>
Hash1 == <<104>>
Hash2 == <<105>>
Expiry == TimeAt(Now + 7000, 0)

TokenIds(st) == {t.id : t \in st.refresh_tokens}

\* INSERT INTO refresh_tokens: the primary key, the user reference.
InsertableToken(st, t) ==
    /\ IsUUID(t.id) /\ IsUUID(t.user_id)
    /\ t.id \notin TokenIds(st)
    /\ t.user_id \in UserIds(st)

TokenRow(id, userID, tokenHash, expiresAt) ==
    [id |-> id, user_id |-> userID, token_hash |-> tokenHash, expires_at |-> expiresAt,
     revoked |-> FALSE, replaced_by |-> <<>>]

\* Store.CreateRefreshToken.
CreateRefreshToken(st, userID, tokenHash, expiresAt) ==
    LET t == TokenRow(NewUUID(TokenIdPool, TokenIds(st)), userID, tokenHash, expiresAt)
    IN IF InsertableToken(st, t)
       THEN StoreResult([st EXCEPT !.refresh_tokens = @ \cup {t}], FALSE, t.id)
       ELSE StoreResult(st, TRUE, t.id)

\* The two statements of a rotation, as writes on the table.
RevokeWrite(oldID, newID) == [stmt |-> "UPDATE", id |-> oldID, replaced_by |-> newID]
InsertWrite(t) == [stmt |-> "INSERT", row |-> t]

ApplyWrite(st, w) ==
    IF w.stmt = "UPDATE"
    THEN [st EXCEPT !.refresh_tokens =
            {IF t.id = w.id THEN [t EXCEPT !.revoked = TRUE, !.replaced_by = w.replaced_by]
             ELSE t : t \in @}]
    ELSE [st EXCEPT !.refresh_tokens = @ \cup {w.row}]

RECURSIVE ApplyWrites(_, _)
ApplyWrites(st, ws) ==
    IF ws = <<>> THEN st ELSE ApplyWrites(ApplyWrite(st, Head(ws)), Tail(ws))

\* A statement run on the pool: its write is committed at once.
ExecOnPool(call, st, w) == [call |-> call, store |-> ApplyWrite(st, w)]

\* tx.Exec: the write stays in the transaction.
ExecInTx(call, st, w) == [call |-> [call EXCEPT !.writes = Append(@, w)], store |-> st]

\* The rotations asked for: of a token there is, twice, and of one there is
\* not; with a new id, with the id of a token there is, with no UUID.
RotateCalls ==
    { [oldID |-> o, newID |-> n, userID |-> User1, newHash |-> Hash2] :
        o \in {TokenIdPool[1], <<39>>},
        n \in {TokenIdPool[4], TokenIdPool[5], TokenIdPool[2], <<0>>} }

Rotating(c) ==
    [oldID |-> c.oldID, newID |-> c.newID, userID |-> c.userID, newHash |-> c.newHash,
     pc |-> "update", err |-> FALSE, writes |-> <<>>]

\* return err, and the deferred tx.Rollback.
RolledBack(call) == [call EXCEPT !.pc = "done", !.err = TRUE, !.writes = <<>>]

CreateToken ==
    /\ Cardinality(store.refresh_tokens) < MaxTokens
    /\ store' = CreateRefreshToken(store, User1, Hash1, Expiry).store
    /\ UNCHANGED <<req, resp, handlerCalls, backendCalls, phase, calls, limiter>>

\* s.pool.Begin.  The caller makes a new id for every rotation.
BeginRotate ==
    /\ Len(calls) < MaxCalls
    /\ \E c \in RotateCalls :
            /\ \A j \in 1..Len(calls) : calls[j].newID # c.newID
            /\ calls' = Append(calls, Rotating(c))
    /\ UNCHANGED <<store, req, resp, handlerCalls, backendCalls, phase, limiter>>

\* Another open transaction has written the row id, or row id itself.
LockedByOther(i, id) ==
    \E j \in 1..Len(calls) :
        /\ j # i
        /\ \E k \in 1..Len(calls[j].writes) :
              \/ calls[j].writes[k].stmt = "UPDATE" /\ calls[j].writes[k].id = id
              \/ calls[j].writes[k].stmt = "INSERT" /\ calls[j].writes[k].row.id = id

Stepped(i, x, pc) ==
    /\ calls' = [calls EXCEPT ![i] = [x.call EXCEPT !.pc = pc]]
    /\ store' = x.store

Fails(i) ==
    /\ calls' = [calls EXCEPT ![i] = RolledBack(@)]
    /\ UNCHANGED store

\* UPDATE refresh_tokens SET revoked = true, replaced_by = $1 WHERE id = $2.
RevokeOld ==
    /\ \E i \in 1..Len(calls), lost \in BOOLEAN :
            /\ calls[i].pc = "update"
            /\ ~LockedByOther(i, calls[i].oldID)
            /\ IF lost \/ ~IsUUID(calls[i].oldID) \/ ~IsUUID(calls[i].newID)
               THEN Fails(i)
               ELSE Stepped(i, ExecInTx(calls[i], store,
                                        RevokeWrite(calls[i].oldID, calls[i].newID)),
                            "insert")
    /\ UNCHANGED <<req, resp, handlerCalls, backendCalls, phase, limiter>>

\* INSERT INTO refresh_tokens (id, user_id, token_hash, expires_at).
InsertNew ==
    /\ \E i \in 1..Len(calls), lost \in BOOLEAN :
            /\ calls[i].pc = "insert"
            /\ ~LockedByOther(i, calls[i].newID)
            /\ LET t == TokenRow(calls[i].newID, calls[i].userID, calls[i].newHash, Expiry)
               IN IF lost \/ ~InsertableToken(store, t)
                  THEN Fails(i)
                  ELSE Stepped(i, ExecInTx(calls[i], store, InsertWrite(t)), "commit")
    /\ UNCHANGED <<req, resp, handlerCalls, backendCalls, phase, limiter>>

\* tx.Commit.
CommitRotate ==
    /\ \E i \in 1..Len(calls), lost \in BOOLEAN :
            /\ calls[i].pc = "commit"
            /\ IF lost THEN Fails(i)
               ELSE /\ store' = ApplyWrites(store, calls[i].writes)
                    /\ calls' = [calls EXCEPT ![i] =
                                    [@ EXCEPT !.pc = "done", !.writes = <<>>]]
    /\ UNCHANGED <<req, resp, handlerCalls, backendCalls, phase, limiter>>

RotateNext == CreateToken \/ BeginRotate \/ RevokeOld \/ InsertNew \/ CommitRotate

RotateSpec == Init /\ [][RotateNext]_vars

-----------------------------------------------------------------------------
(* Requests that end early.  net/http cancels r.Context() when the client  *)
(* goes away; a context made from another by metadata.NewOutgoingContext   *)
(* or context.WithValue is done when its parent is.  A context is the      *)
(* sequence of its derivations, the root first.                            *)

RequestContext == <<"r.Context()">>
Background == <<"context.Background()">>
NewOutgoingContext(parent) == Append(parent, "metadata")
WithValue(parent) == Append(parent, "uid")

\* A context made of nothing the request knows.
forwardContextDetached == NewOutgoingContext(Background)

\* forward: ctx := metadata.NewOutgoingContext(r.Context(), md).
forwardContext == NewOutgoingContext(RequestContext)

\* The context of the call made for a path: forward's for conn.Invoke and
\* for Login and Register, manualAuth's for the other Handler operations.
CallContext(path) ==
    IF Route(path) \in {"opaque", "Login", "Register"}
    THEN forwardContext ELSE WithValue(forwardContext)

\* ctx is done once the request's context is.
Done(ctx) == phase = "cancelled" /\ ctx[1] = RequestContext[1]

\* grpc's code for a call whose context was cancelled.
Canceled == 1
ContextCanceled == StatusError(Canceled, "context canceled")

\* What each Handler operation returns when a store call of its fails.
StoreFailures(op) ==
    CASE op = "Login" -> {StatusError(Unauthenticated, "invalid credentials")}
      [] op = "Register" -> {StatusError(AlreadyExists, "registration failed")}
      [] op = "ListAppointments" -> {StatusError(Internal, "internal error")}
      [] op = "GetAppointment" -> {StatusError(NotFound, "not found")}
      [] op = "DeleteAppointment" -> {StatusError(Internal, "internal error")}
      [] OTHER -> {StatusError(Internal, "internal error"), Conflict}

InFlight(kind, ctx) == [kind |-> kind, ctx |-> ctx, pc |-> "in flight", err |-> NoErr]

CancelRequests ==
    BridgeRequests("Login", {<<>>}, LoginMessages)
        \cup BridgeRequests("CreateAppointment", FewAuthHeaders, CreateMessages)
        \cup BridgeRequests("GetAppointment", FewAuthHeaders, IdMessages)
        \cup BridgeRequests("DeleteAppointment", FewAuthHeaders, IdMessages)
        \cup { Request("POST", GrpcWebProto, p, a, DataFrame(<<>>), FALSE) :
                 p \in {"/appointment.v1.ScheduleService/Refresh",
                        "/grpc.health.v1.Health/Check"},
                 a \in FewAuthHeaders }

\* The request is over: the response is written, no call is left.
Ended(r, o) ==
    /\ Cardinality(o.store.appts) <= MaxAppts
    /\ req' = r
    /\ resp' = o.w
    /\ store' = o.store
    /\ handlerCalls' = o.hcalls
    /\ backendCalls' = o.bcalls
    /\ calls' = <<>>
    /\ phase' = "served"
    /\ UNCHANGED limiter

\* The bridge answers without calling anyone.
Refuse ==
    /\ phase = "idle"
    /\ \E r \in CancelRequests :
         LET o == Handler(store, Secret, r, NoReply)
         IN o.hcalls = <<>> /\ o.bcalls = <<>> /\ Ended(r, o)

\* The bridge makes its call, on the backend or on the Handler.
Started(r, o) ==
    /\ o.hcalls # <<>> \/ o.bcalls # <<>>
    /\ req' = r
    /\ calls' = <<InFlight(IF o.bcalls # <<>> THEN "backend" ELSE Route(r.path),
                           CallContext(r.path))>>
    /\ phase' = "in flight"
    /\ UNCHANGED <<store, resp, handlerCalls, backendCalls, limiter>>

Start ==
    /\ phase = "idle"
    /\ \E r \in CancelRequests : Started(r, Handler(store, Secret, r, NoReply))

\* The client disconnects, or the deadline passes.
Cancel ==
    /\ phase = "in flight"
    /\ phase' = "cancelled"
    /\ UNCHANGED <<store, req, resp, handlerCalls, backendCalls, calls, limiter>>

\* The call returns of its own and the bridge writes the response.
Complete ==
    /\ phase \in {"in flight", "cancelled"}
    /\ calls[1].pc = "in flight"
    /\ \E reply \in IF calls[1].kind = "backend" THEN BackendReplies ELSE {NoReply} :
            Ended(req, Handler(store, Secret, req, reply))

\* The call sees that its context is done and returns the error: Invoke
\* the status Canceled, the Handler what it makes of a failed store call.
Observe ==
    /\ phase = "cancelled"
    /\ calls[1].pc = "in flight"
    /\ Done(calls[1].ctx)
    /\ \E e \in IF calls[1].kind = "backend" THEN {ContextCanceled}
                 ELSE StoreFailures(calls[1].kind) :
            calls' = <<[calls[1] EXCEPT !.pc = "returned", !.err = e]>>
    /\ UNCHANGED <<store, req, resp, handlerCalls, backendCalls, phase, limiter>>

\* The bridge writes the error the call returned.
Failed(c, err) ==
    finish(NewWriter, c.op, c.uid, c.req, HandlerResult(store, err, NoResp))

WriteCancelled ==
    /\ phase = "cancelled"
    /\ calls[1].pc = "returned"
    /\ IF calls[1].kind = "backend"
       THEN Ended(req, Handler(store, Secret, req, Reply(calls[1].err, <<>>)))
       ELSE Ended(req, Failed(Handler(store, Secret, req, NoReply).hcalls[1],
                              calls[1].err))

CancelNext ==
    Refuse \/ Start \/ Cancel \/ Complete \/ Observe \/ WriteCancelled \/ Delivered

\* A call whose context is done does return: conn.Invoke and the pgx pool
\* both select on ctx.Done().
CancelSpec == Init /\ [][CancelNext]_vars /\ WF_vars(Observe)
-----------------------------------------------------------------------------
(* What a client and the two stubs see of a served request: the response   *)
(* resp, the Handler operations called (handlerCalls) and the calls on the *)
(* backend transport (backendCalls).                                       *)

\* The request passed the front door: a POST of a grpc-web content type.
Gated ==
    /\ phase = "served"
    /\ req.method = "POST"
    /\ HasPrefix(req.contentType, "application/grpc-web")

\* The number in bytes 1..4 of a body of five bytes or more.
DeclaredLength(body) ==
    body[2] * 16777216 + body[3] * 65536 + body[4] * 256 + body[5]

\* The body was read and holds a whole frame; FramePayload is its payload.
Framed ==
    /\ Gated
    /\ ~req.readFails
    /\ Len(req.body) >= 5
    /\ DeclaredLength(req.body) <= Len(req.body) - 5

FramePayload == SubSeq(req.body, 6, 5 + DeclaredLength(req.body))

\* The allow-listed method a path is the identifier of, "opaque" if none.
Method(path) ==
    CASE path = "/appointment.v1.ScheduleService/Login" -> "Login"
      [] path = "/appointment.v1.ScheduleService/Register" -> "Register"
      [] path = "/appointment.v1.ScheduleService/ListAppointments" -> "ListAppointments"
      [] path = "/appointment.v1.ScheduleService/CreateAppointment" -> "CreateAppointment"
      [] path = "/appointment.v1.ScheduleService/GetAppointment" -> "GetAppointment"
      [] path = "/appointment.v1.ScheduleService/UpdateAppointment" -> "UpdateAppointment"
      [] path = "/appointment.v1.ScheduleService/DeleteAppointment" -> "DeleteAppointment"
      [] OTHER -> "opaque"

\* The five methods that need a credential.
Protected ==
    {"ListAppointments", "CreateAppointment", "GetAppointment",
     "UpdateAppointment", "DeleteAppointment"}

StatusLine(code) == "grpc-status:" \o ToString(code) \o "\r\n"

\* w is a trailer-only answer: HTTP 200 and one Trailer frame, its length
\* field the length of its text.
TrailerOnly(w) ==
    /\ w.status = StatusOK
    /\ Len(w.frames) = 1
    /\ w.frames[1].flag = TrailerFlag
    /\ w.frames[1].length = Len(w.frames[1].payload)

\* ... whose text is the status line of code and then a grpc-message line.
TrailerWith(w, code) ==
    /\ TrailerOnly(w)
    /\ HasPrefix(w.frames[1].payload, StatusLine(code) \o "grpc-message:")
    /\ HasSuffix(w.frames[1].payload, "\r\n")

\* ... whose grpc-message line carries exactly msg.
TrailerExactly(w, code, msg) ==
    /\ TrailerOnly(w)
    /\ w.frames[1].payload = StatusLine(code) \o "grpc-message:" \o msg \o "\r\n"

\* w is a success pair around payload data.
SuccessPair(w, data) ==
    /\ Len(w.frames) = 2
    /\ w.frames[1].flag = DataFlag
    /\ w.frames[1].payload = data
    /\ w.frames[1].length = Len(data)
    /\ w.frames[2].flag = TrailerFlag
    /\ w.frames[2].payload = "grpc-status:0\r\n"

HandlerSucceeded == handlerCalls # <<>> /\ handlerCalls[1].err = NoErr
BackendSucceeded == backendCalls # <<>> /\ backendCalls[1].reply.err = NoErr

\* text occurs in s.
Contains(s, text) ==
    \E i \in 1..(Len(s) - Len(text) + 1) : SubSeq(s, i, i + Len(text) - 1) = text

-----------------------------------------------------------------------------
(* C1.  A gated request whose body is shorter than 5 bytes, or whose       *)
(* 4-byte length field exceeds the bytes after the 5-byte header, is       *)
(* answered with an InvalidArgument trailer on every path, and neither the *)
(* backend transport nor a Handler operation is invoked.                   *)
C1_MalformedFrameRejected ==
    (/\ Gated
     /\ ~req.readFails
     /\ (Len(req.body) < 5 \/ DeclaredLength(req.body) > Len(req.body) - 5))
        => /\ TrailerWith(resp, InvalidArgument)
           /\ handlerCalls = <<>>
           /\ backendCalls = <<>>

\* A frame on an opaque path that claims one byte more than follows was
\* rejected.
C1_Witness ==
    /\ Gated
    /\ req.body = <<0, 0, 0, 0, 1>>
    /\ req.path = "/grpc.health.v1.Health/Check"
    /\ TrailerExactly(resp, InvalidArgument, "incomplete frame")

-----------------------------------------------------------------------------
(* C2.  On the five protected methods a request with no Authorization      *)
(* header is answered with an Unauthenticated trailer and no Handler       *)
(* operation is invoked, whatever the payload: the check comes before the  *)
(* decoding.                                                               *)
C2_NoCredentialRejected ==
    (Framed /\ Method(req.path) \in Protected /\ req.auth = <<>>)
        => /\ TrailerWith(resp, Unauthenticated)
           /\ handlerCalls = <<>>
           /\ backendCalls = <<>>

\* No header and a payload that stops inside its first field.
C2_Witness ==
    /\ Framed
    /\ Method(req.path) = "GetAppointment"
    /\ req.auth = <<>>
    /\ FramePayload = <<10, 1>>
    /\ TrailerExactly(resp, Unauthenticated, "no token")
-----------------------------------------------------------------------------
(* C3.  On every direct-dispatch method a payload that is not well-formed  *)
(* wire data (a bad tag, or a value that claims more bytes than remain, in *)
(* a field of the schema or not, at top level or inside a nested           *)
(* timestamp) gets an InvalidArgument trailer and no Handler operation is  *)
(* invoked.                                                                *)

\* The schema of each direct-dispatch method.
Schema(op) ==
    CASE op = "Login" -> LoginFields
      [] op = "Register" -> RegisterFields
      [] op = "ListAppointments" -> ListFields
      [] op = "CreateAppointment" -> CreateFields
      [] op = "GetAppointment" -> GetFields
      [] op = "UpdateAppointment" -> UpdateFields
      [] op = "DeleteAppointment" -> DeleteFields

TimestampFields(op) == {n \in DOMAIN Schema(op) : Schema(op)[n].kind = "timestamp"}

\* b is a sequence of whole fields, and so is the value of every
\* length-delimited field whose number is in nested.
RECURSIVE WellFormed(_, _)
WellFormed(nested, b) ==
    \/ Len(b) = 0
    \/ /\ ConsumeTag(b).n >= 0
       /\ LET t == ConsumeTag(b)
              rest == Drop(b, t.n)
              n == ConsumeFieldValue(t.num, t.typ, rest)
          IN /\ n >= 0
             /\ (t.num \in nested /\ t.typ = BytesType)
                    => WellFormed({}, ConsumeBytes(rest).v)
             /\ WellFormed(nested, Drop(rest, n))

\* The request carries what its method needs to get past the Auth Bridge.
Admitted ==
    \/ Method(req.path) \in {"Login", "Register"}
    \/ /\ Method(req.path) \in Protected
       /\ \E u \in {User1, User2} : req.auth = Bearer \o MakeToken(u, Secret)

C3_MalformedPayloadRejected ==
    (/\ Framed
     /\ Admitted
     /\ ~WellFormed(TimestampFields(Method(req.path)), FramePayload))
        => /\ TrailerWith(resp, InvalidArgument)
           /\ handlerCalls = <<>>

-----------------------------------------------------------------------------
(* C4.  Every gated request that fails, for whatever reason, is answered   *)
(* with HTTP 200 and exactly one frame, a Trailer frame with a non-zero    *)
(* grpc-status and a grpc-message line; no Data frame is written.          *)
C4_FailureIsOneTrailer ==
    (Gated /\ ~HandlerSucceeded /\ ~BackendSucceeded)
        => \E code \in 1..16 : TrailerWith(resp, code)

-----------------------------------------------------------------------------
(* C5.  Every successful call, direct or opaque, is answered with exactly  *)
(* two frames: a Data frame whose length field is the length of the        *)
(* response payload, then a Trailer frame whose text is the status-0 line  *)
(* alone.  DeleteAppointment's payload is empty.                           *)
C5_SuccessIsDataThenTrailer ==
    /\ (Gated /\ HandlerSucceeded)
        => /\ SuccessPair(resp, Encode(handlerCalls[1].op, handlerCalls[1].resp))
           /\ (handlerCalls[1].op = "DeleteAppointment" => resp.frames[1].length = 0)
    /\ (Gated /\ BackendSucceeded)
        => SuccessPair(resp, backendCalls[1].reply.data)

\* A DeleteAppointment that succeeded on a row of the caller.
C5_Witness ==
    /\ Gated
    /\ HandlerSucceeded
    /\ handlerCalls[1].op = "DeleteAppointment"
    /\ \E o \in store.appts :
        o.id = handlerCalls[1].req.id /\ o.user_id = handlerCalls[1].uid
            /\ o.status = Cancelled
    /\ resp.frames[1] = [flag |-> DataFlag, length |-> 0, payload |-> <<>>]

-----------------------------------------------------------------------------
(* C6.  A request whose path is none of the seven allow-listed methods is  *)
(* forwarded to the backend under the same path with its payload           *)
(* unchanged, and what the backend returns is relayed unchanged as the     *)
(* Data frame of a success pair; no Handler operation decodes it.          *)
C6_OtherPathsForwarded ==
    (Framed /\ Method(req.path) = "opaque")
        => /\ handlerCalls = <<>>
           /\ Len(backendCalls) = 1
           /\ backendCalls[1].path = req.path
           /\ backendCalls[1].payload = FramePayload
           /\ BackendSucceeded => SuccessPair(resp, backendCalls[1].reply.data)

-----------------------------------------------------------------------------
(* C7.  Direct dispatch is chosen exactly for the seven allow-listed       *)
(* method identifiers: a request reaches the backend transport if and only *)
(* if its path is none of them, a path of another service with the same    *)
(* last segment included.                                                  *)
C7_DirectDispatchExactlyAllowListed ==
    Framed => (Method(req.path) = "opaque" <=> backendCalls # <<>>)

-----------------------------------------------------------------------------
(* C8.  ParseToken(MakeToken(uid, s), s) yields uid for every uid and s; a *)
(* token signed with another secret, a token that declares a non-HMAC      *)
(* algorithm and a string that is no token are rejected; on the five       *)
(* protected methods a rejected credential gets an Unauthenticated trailer *)
(* and no Handler operation is invoked, and the tokens Login and Register  *)
(* issue are accepted for the user they name.                              *)

NotAToken == <<110, 111, 116, 46, 97, 46, 116, 111, 107, 101, 110>>

\* The credentials the claim says must be rejected.
Forged ==
    {MakeToken(u, OtherSecret) : u \in {User1, User2}}
        \cup {SignedToken(alg, Now + TokenLifetime, Secret, User1) : alg \in {AlgRS256, AlgNone}}
        \cup {NotAToken}

C8_OnlyTokensOfTheSecret ==
    /\ \A u \in {User1, User2, <<>>}, s \in {Secret, OtherSecret} :
        /\ ParseToken(MakeToken(u, s), s) = [ok |-> TRUE, uid |-> u]
        /\ \A other \in {Secret, OtherSecret} \ {s} : ~ParseToken(MakeToken(u, other), s).ok
        /\ \A alg \in {AlgRS256, AlgNone} :
            ~ParseToken(SignedToken(alg, Now + TokenLifetime, s, u), s).ok
        /\ ~ParseToken(NotAToken, s).ok
    /\ (Framed /\ Method(req.path) \in Protected /\ \E c \in Forged : req.auth = Bearer \o c)
        => /\ TrailerWith(resp, Unauthenticated)
           /\ handlerCalls = <<>>
    /\ (Framed /\ Method(req.path) \in Protected /\ handlerCalls # <<>>)
        => req.auth \in {Bearer \o MakeToken(handlerCalls[1].uid, Secret),
                         MakeToken(handlerCalls[1].uid, Secret),
                         Bearer \o SignedToken(AlgHS384, Now + TokenLifetime, Secret,
                                               handlerCalls[1].uid)}
    /\ (Gated /\ HandlerSucceeded /\ handlerCalls[1].op \in {"Login", "Register"})
        => ParseToken(handlerCalls[1].resp.token, Secret)
                = [ok |-> TRUE, uid |-> handlerCalls[1].resp.user_id]

\* A token of a registered user signed with another secret was turned away.
C8_Witness ==
    /\ Framed
    /\ Method(req.path) = "ListAppointments"
    /\ req.auth = Bearer \o MakeToken(User1, OtherSecret)
    /\ TrailerExactly(resp, Unauthenticated, "bad token")
    /\ handlerCalls = <<>>

-----------------------------------------------------------------------------
(* C9.  When a Handler operation fails, the answer is one Trailer frame    *)
(* with exactly the code and the message of the Handler's error and no     *)
(* Data frame; GetAppointment for a record that does not exist or is not   *)
(* the caller's gets a NotFound trailer.                                   *)
C9_HandlerErrorVerbatim ==
    /\ (Gated /\ handlerCalls # <<>> /\ handlerCalls[1].err # NoErr)
        => /\ handlerCalls[1].err.kind = "status"
           /\ handlerCalls[1].err.code # OK
           /\ TrailerExactly(resp, handlerCalls[1].err.code, handlerCalls[1].err.msg)
    /\ (/\ Gated
        /\ handlerCalls # <<>>
        /\ handlerCalls[1].op = "GetAppointment"
        /\ handlerCalls[1].req.id # <<>>
        /\ ~\E o \in store.appts :
                o.id = handlerCalls[1].req.id /\ o.user_id = handlerCalls[1].uid)
        => TrailerWith(resp, NotFound)

\* GetAppointment on another user's appointment.
C9_Witness ==
    /\ Gated
    /\ handlerCalls # <<>>
    /\ handlerCalls[1].op = "GetAppointment"
    /\ \E o \in store.appts :
        o.id = handlerCalls[1].req.id /\ o.user_id # handlerCalls[1].uid
    /\ TrailerExactly(resp, NotFound, "not found")

-----------------------------------------------------------------------------
(* C10.  When the backend call on the opaque path fails, the answer is one *)
(* Trailer frame with the transport's code and message unchanged; when the *)
(* failure carries no status, the trailer carries Internal and a message   *)
(* that does not contain the text of the error.                            *)
C10_TransportFailureMapped ==
    (Gated /\ backendCalls # <<>> /\ backendCalls[1].reply.err # NoErr)
        => IF backendCalls[1].reply.err.kind = "status"
           THEN TrailerExactly(resp, backendCalls[1].reply.err.code,
                               backendCalls[1].reply.err.msg)
           ELSE /\ TrailerWith(resp, Internal)
                /\ ~Contains(resp.frames[1].payload, backendCalls[1].reply.err.msg)
-----------------------------------------------------------------------------
(* C11.  For any payload P, the Data frame of P (flag 0x00, the 4-byte     *)
(* big-endian length, P), read by the request-frame decoder, gives back P, *)
(* and its length field is len(P): on the way in, the payload the bridge   *)
(* hands on is P; on the way out, the Data frame it writes reads back as   *)
(* the bytes it was given.                                                 *)

\* What the request-frame decoder of forward makes of a frame it accepts.
DecodeFrame(wire) == Slice(wire, 5, 5 + BigEndianUint32(SubSeq(wire, 2, 5)))

\* The body is the Data frame of the bytes after its header.
IsDataFrameOfItsPayload(body) ==
    /\ Len(body) >= 5
    /\ body = FrameBytes(Frame(DataFlag, Drop(body, 5)))

C11_FrameRoundTrip ==
    /\ (Gated /\ ~req.readFails /\ Method(req.path) = "opaque"
              /\ Route(req.path) = "opaque"
              /\ IsDataFrameOfItsPayload(req.body))
        => /\ DeclaredLength(req.body) = Len(Drop(req.body, 5))
           /\ Len(backendCalls) = 1
           /\ backendCalls[1].payload = Drop(req.body, 5)
    /\ (Gated /\ (HandlerSucceeded \/ BackendSucceeded))
        => /\ Len(resp.frames) = 2
           /\ FrameCheck(FrameBytes(resp.frames[1])) = "ok"
           /\ DecodeFrame(FrameBytes(resp.frames[1])) = resp.frames[1].payload
           /\ BigEndianUint32(SubSeq(FrameBytes(resp.frames[1]), 2, 5))
                = Len(resp.frames[1].payload)

\* A three-byte payload went in and a three-byte payload came back.
C11_Witness ==
    /\ Gated
    /\ req.body = FrameBytes(Frame(DataFlag, <<10, 1, 8>>))
    /\ BackendSucceeded
    /\ backendCalls[1].payload = <<10, 1, 8>>
    /\ resp.frames[1].payload = <<10, 1, 120>>
    /\ DecodeFrame(FrameBytes(resp.frames[1])) = <<10, 1, 120>>

-----------------------------------------------------------------------------
(* C12.  Unknown fields are skipped.                                       *)

\* The request record the fields of KnownFields(op) stand for.
KnownRecord(op) ==
    CASE op = "Login" -> [email |-> Email1, password |-> Password1]
      [] op = "Register" -> [email |-> Email3, password |-> Password1, name |-> Name1]
      [] op = "ListAppointments" -> [range_start |-> Ts(0, 0), range_end |-> Ts(5000, 0)]
      [] op = "CreateAppointment" ->
            [title |-> Title1, description |-> <<>>, start_time |-> Ts(SlotStart, 0),
             end_time |-> Ts(SlotEnd, 0), location |-> <<>>, attendee_ids |-> <<User2>>]
      [] op = "UpdateAppointment" ->
            [id |-> ApptIdPool[1], title |-> Title1, description |-> <<>>,
             start_time |-> Ts(SlotStart, 0), end_time |-> Ts(SlotEnd, 0),
             location |-> <<>>, attendee_ids |-> <<>>]
      [] OTHER -> [id |-> ApptIdPool[1]]

\* The frames of KnownFields(op), and of KnownFields(op) with one unknown
\* field somewhere.
KnownBodies == [op \in DirectMethods |-> DataFrame(Concat(KnownFields(op)))]
UnknownFieldBodies ==
    [op \in DirectMethods |->
        { DataFrame(Insert(KnownFields(op), i, x)) :
            i \in 0..Len(KnownFields(op)), x \in UnknownFields }]

\* The caller passes manualAuth where the method has it.
Authorized(op) == op \in Protected => manualAuth(req.auth, Secret).err = NoErr

\* The Handler was invoked once, as op, with the record of KnownFields(op).
InvokedWithKnownRecord(op) ==
    /\ Len(handlerCalls) = 1
    /\ handlerCalls[1].op = op
    /\ handlerCalls[1].req = KnownRecord(op)

\* C12: a well-formed message of a direct-dispatch schema with one extra
\* field of a number outside the schema, of any wire type and at any
\* position, decodes, and the Handler is invoked with exactly the request
\* record it is invoked with for the message without that field.
C12_UnknownFieldSkipped ==
    (Gated /\ ~req.readFails /\ Method(req.path) \in DirectMethods)
        => /\ (req.body \in UnknownFieldBodies[Method(req.path)]
                    /\ Authorized(Method(req.path)))
                => InvokedWithKnownRecord(Method(req.path))
           /\ (req.body = KnownBodies[Method(req.path)]
                    /\ Authorized(Method(req.path)))
                => InvokedWithKnownRecord(Method(req.path))

C12_Witness ==
    /\ Gated
    /\ req.path = PathOf("CreateAppointment")
    /\ req.body = DataFrame(Insert(KnownFields("CreateAppointment"), 1,
                                   AppendTag(<<>>, 15, StartGroupType)
                                       \o AppendVarint(AppendTag(<<>>, 1, VarintType), 1)
                                       \o AppendTag(<<>>, 15, EndGroupType)))
    /\ Len(handlerCalls) = 1
    /\ handlerCalls[1].req = KnownRecord("CreateAppointment")
    /\ handlerCalls[1].err = NoErr

-----------------------------------------------------------------------------
(* C13.  What the encoder writes, read back field by field.                *)

Malformed == [num |-> 0, typ |-> 0, v |-> <<>>]

RECURSIVE FieldsOf(_)
RECURSIVE FieldsTag(_, _)
RECURSIVE FieldsValue(_, _, _)

\* The fields of b as ConsumeTag and ConsumeBytes / ConsumeVarint find
\* them, one record for each, in order.
FieldsOf(b) == IF Len(b) = 0 THEN <<>> ELSE FieldsTag(b, ConsumeTag(b))

FieldsTag(b, t) ==
    IF t.n < 0 THEN <<Malformed>>
    ELSE IF t.typ = BytesType
    THEN FieldsValue(Drop(b, t.n), t, ConsumeBytes(Drop(b, t.n)))
    ELSE IF t.typ = VarintType
    THEN FieldsValue(Drop(b, t.n), t, ConsumeVarint(Drop(b, t.n)))
    ELSE <<Malformed>>

FieldsValue(b1, t, c) ==
    IF c.n < 0 THEN <<Malformed>>
    ELSE <<[num |-> t.num, typ |-> t.typ, v |-> c.v]>> \o FieldsOf(Drop(b1, c.n))

StringField(num, v) == [num |-> num, typ |-> BytesType, v |-> v]

\* The length-delimited values of field num among fs, in order.
RECURSIVE ValuesAt(_, _)
ValuesAt(fs, num) ==
    IF Len(fs) = 0 THEN <<>>
    ELSE IF Head(fs).num = num /\ Head(fs).typ = BytesType
         THEN <<Head(fs).v>> \o ValuesAt(Tail(fs), num)
         ELSE ValuesAt(Tail(fs), num)

\* vs, the values of one string field: the string.
StringOf(vs) == IF Len(vs) = 1 THEN vs[1] ELSE <<0 - 1>>
\* vs, the values of one timestamp field: absent, or the timestamp the
\* bridge's own parseTimestamp reads.
TimestampOf(vs) ==
    IF Len(vs) = 0 THEN NilTs
    ELSE IF Len(vs) = 1 THEN parseTimestamp(vs[1]).ts
    ELSE Ts(0 - 1, 0 - 1)

\* The Appointment that fields fs spell.
AppointmentOf(fs) ==
    [id |-> StringOf(ValuesAt(fs, 1)), title |-> StringOf(ValuesAt(fs, 2)),
     description |-> StringOf(ValuesAt(fs, 3)),
     start_time |-> TimestampOf(ValuesAt(fs, 4)), end_time |-> TimestampOf(ValuesAt(fs, 5)),
     user_id |-> StringOf(ValuesAt(fs, 6)), status |-> StringOf(ValuesAt(fs, 7)),
     location |-> StringOf(ValuesAt(fs, 8)), attendee_ids |-> ValuesAt(fs, 9),
     created_at |-> TimestampOf(ValuesAt(fs, 10)),
     updated_at |-> TimestampOf(ValuesAt(fs, 11))]

\* fs are all length-delimited, of the numbers in nums, in rising order.
InSchemaOrder(fs, nums) ==
    /\ \A i \in 1..Len(fs) : fs[i].typ = BytesType /\ fs[i].num \in nums
    /\ \A i \in 1..(Len(fs) - 1) : fs[i].num <= fs[i + 1].num

AppointmentRecovered(a, b) ==
    /\ InSchemaOrder(FieldsOf(b), 1..11)
    /\ AppointmentOf(FieldsOf(b)) = a

\* data read back gives the response out of method op.
Recovered(op, out, data) ==
    CASE op = "Login" ->
            FieldsOf(data) = <<StringField(1, out.token), StringField(2, out.user_id),
                               StringField(3, out.name)>>
      [] op = "Register" ->
            FieldsOf(data) = <<StringField(1, out.user_id), StringField(2, out.token)>>
      [] op = "ListAppointments" ->
            /\ InSchemaOrder(FieldsOf(data), {1})
            /\ Len(FieldsOf(data)) = Len(out.appointments)
            /\ \A i \in 1..Len(out.appointments) :
                    AppointmentRecovered(out.appointments[i], FieldsOf(data)[i].v)
      [] op = "DeleteAppointment" -> data = <<>>
      [] OTHER ->
            /\ InSchemaOrder(FieldsOf(data), {1})
            /\ Len(FieldsOf(data)) = 1
            /\ AppointmentRecovered(out.appointment, FieldsOf(data)[1].v)

\* C13: the bytes the encoder writes for a Login response, a Register
\* response, an Appointment or a list of them, read back with the field
\* iterator, give every field of the response with its value: the strings
\* at their field numbers in the order written, the attendee ids as
\* repeated occurrences of field 9 in list order, a present timestamp with
\* its seconds and nanos, an absent timestamp as absent.
C13_EncodedFieldsRecovered ==
    (Gated /\ HandlerSucceeded)
        => /\ Len(resp.frames) = 2
           /\ Recovered(handlerCalls[1].op, handlerCalls[1].resp, resp.frames[1].payload)

C13_Witness ==
    /\ Gated
    /\ HandlerSucceeded
    /\ handlerCalls[1].op = "GetAppointment"
    /\ handlerCalls[1].resp.appointment.start_time = Ts(300, 999999999)
    /\ ~handlerCalls[1].resp.appointment.created_at.present
    /\ handlerCalls[1].resp.appointment.attendee_ids = << <<98>>, <<97>> >>
    /\ AppointmentOf(FieldsOf(FieldsOf(resp.frames[1].payload)[1].v))
         = handlerCalls[1].resp.appointment

-----------------------------------------------------------------------------
(* C14.  Zero values in what the encoder writes.                           *)

HasField(fs, num) == \E i \in 1..Len(fs) : fs[i].num = num

\* Among fs there is no field num when the string v is empty.
EmptyStringOmitted(fs, num, v) == v = <<>> => ~HasField(fs, num)

\* inner, the fields of a timestamp's bytes, has no seconds field when the
\* seconds are zero and no nanos field when the nanos are zero.
ZeroPartsOmitted(inner, ts) ==
    /\ ts.seconds = 0 => ~HasField(inner, 1)
    /\ ts.nanos = 0 => ~HasField(inner, 2)

ZeroTimestampOmitted(vs, ts) ==
    (ts.present /\ Len(vs) = 1) => ZeroPartsOmitted(FieldsOf(vs[1]), ts)

\* fs, the fields written for Appointment a, leave out its zero values.
AppointmentZerosOmitted(fs, a) ==
    /\ EmptyStringOmitted(fs, 1, a.id)
    /\ EmptyStringOmitted(fs, 2, a.title)
    /\ EmptyStringOmitted(fs, 3, a.description)
    /\ EmptyStringOmitted(fs, 6, a.user_id)
    /\ EmptyStringOmitted(fs, 7, a.status)
    /\ EmptyStringOmitted(fs, 8, a.location)
    /\ ZeroTimestampOmitted(ValuesAt(fs, 4), a.start_time)
    /\ ZeroTimestampOmitted(ValuesAt(fs, 5), a.end_time)
    /\ ZeroTimestampOmitted(ValuesAt(fs, 10), a.created_at)
    /\ ZeroTimestampOmitted(ValuesAt(fs, 11), a.updated_at)

\* fs, the fields written for the response out of method op, leave out its
\* zero values.
ZerosOmitted(op, out, fs) ==
    CASE op = "Login" ->
            /\ EmptyStringOmitted(fs, 1, out.token)
            /\ EmptyStringOmitted(fs, 2, out.user_id)
            /\ EmptyStringOmitted(fs, 3, out.name)
      [] op = "Register" ->
            /\ EmptyStringOmitted(fs, 1, out.user_id)
            /\ EmptyStringOmitted(fs, 2, out.token)
      [] op = "ListAppointments" ->
            \A i \in 1..Len(out.appointments) :
                i <= Len(fs) => AppointmentZerosOmitted(FieldsOf(fs[i].v), out.appointments[i])
      [] op = "DeleteAppointment" -> fs = <<>>
      [] OTHER ->
            Len(fs) = 1 => AppointmentZerosOmitted(FieldsOf(fs[1].v), out.appointment)

\* C14: the encoder leaves out every zero-valued scalar: an empty string of
\* the response, or zero seconds or nanos of one of its timestamps, gives
\* no tag and no value bytes in the bytes written.
C14_ZeroValuesOmitted ==
    (Gated /\ HandlerSucceeded)
        => ZerosOmitted(handlerCalls[1].op, handlerCalls[1].resp,
                        FieldsOf(resp.frames[1].payload))

\* The part of C14 that is about timestamps alone.
C14_ZeroSecondsAndNanosOmitted ==
    (Gated /\ HandlerSucceeded
           /\ handlerCalls[1].op \in {"CreateAppointment", "GetAppointment",
                                       "UpdateAppointment"})
        => \A n \in {4, 5, 10, 11} :
               ZeroTimestampOmitted(
                   ValuesAt(FieldsOf(FieldsOf(resp.frames[1].payload)[1].v), n),
                   CASE n = 4 -> handlerCalls[1].resp.appointment.start_time
                     [] n = 5 -> handlerCalls[1].resp.appointment.end_time
                     [] n = 10 -> handlerCalls[1].resp.appointment.created_at
                     [] OTHER -> handlerCalls[1].resp.appointment.updated_at)

-----------------------------------------------------------------------------
(* C15.  The front door.                                                   *)

\* Nothing of the request was handled: no frame in the response, no call.
NothingHandled ==
    /\ resp.frames = <<>>
    /\ handlerCalls = <<>>
    /\ backendCalls = <<>>

\* C15: an OPTIONS request is answered with HTTP 200 and no body, any other
\* method but POST with HTTP 405, and a POST whose Content-Type does not
\* begin with application/grpc-web with HTTP 415; in all three cases no
\* frame is parsed or written and neither the Handler nor the backend
\* transport is invoked.
C15_FrontDoor ==
    phase = "served" =>
        /\ req.method = "OPTIONS"
            => resp.status = StatusOK /\ resp.text = "" /\ NothingHandled
        /\ req.method \notin {"OPTIONS", "POST"}
            => resp.status = StatusMethodNotAllowed /\ NothingHandled
        /\ (req.method = "POST" /\ ~HasPrefix(req.contentType, "application/grpc-web"))
            => resp.status = StatusUnsupportedMediaType /\ NothingHandled

C15_Witness ==
    /\ phase = "served"
    /\ req.method = "GET"
    /\ req.contentType = "application/json"
    /\ req.body = <<>>
    /\ resp.status = StatusMethodNotAllowed
    /\ NothingHandled

-----------------------------------------------------------------------------
(* C16.  The Content-Type of the response.                                 *)

\* A response was written (the handler did not panic).
Answered == phase = "served" /\ resp.status # 0

\* C16: for every request that passes the front door, the Content-Type of
\* the response is the Content-Type of the request, whichever accepted
\* variant of the media type that is, on success and on error.
C16_ContentTypeMirrored ==
    (Gated /\ Answered) => resp.contentType = req.contentType

\* What the writers do instead: one fixed Content-Type.
C16_ContentTypeFixed ==
    (Gated /\ Answered) => resp.contentType = "application/grpc-web+proto"

-----------------------------------------------------------------------------
(* C17.  The credential on the opaque path.                                *)

\* The metadata a request's Authorization header makes.
HeaderAsMetadata == IF req.auth = <<>> THEN <<>> ELSE <<req.auth>>

\* C17: on the opaque path the bridge hands the value of the Authorization
\* header to the backend transport unchanged as call metadata and does not
\* validate it: a request with no header or with an invalid credential
\* reaches the backend transport all the same, and nothing is added,
\* removed or rewritten.
C17_CredentialPassedThrough ==
    (Framed /\ Route(req.path) = "opaque")
        => /\ Len(backendCalls) = 1
           /\ backendCalls[1].path = req.path
           /\ backendCalls[1].md = HeaderAsMetadata
           /\ handlerCalls = <<>>

C17_Witness ==
    /\ Framed
    /\ Route(req.path) = "opaque"
    /\ req.auth = Bearer \o <<110, 111, 116, 46, 97, 46, 116, 111, 107, 101, 110>>
    /\ manualAuth(req.auth, Secret).err # NoErr
    /\ BackendSucceeded
    /\ backendCalls[1].md = <<req.auth>>

-----------------------------------------------------------------------------
(* C18.  Racing writers.                                                   *)

SameRange(a, b) == a.start_time = b.start_time /\ a.end_time = b.end_time
RequestsOverlap(a, b) ==
    RangesOverlap(AsTime(a.start_time), AsTime(a.end_time),
                  AsTime(b.start_time), AsTime(b.end_time))

\* C18: in every reachable state, however concurrent CreateAppointment and
\* UpdateAppointment calls interleave, no two confirmed appointments of
\* one user overlap on [start, end): of the racers that have all passed
\* the overlap check, the exclusion constraint lets one write and rejects
\* the others.
C18_NoDoubleBooking ==
    \A a \in store.appts : \A b \in store.appts :
        (a.id # b.id /\ a.user_id = b.user_id
                /\ a.status = Confirmed /\ b.status = Confirmed)
            => ~RangesOverlap(a.start_time, a.end_time, b.start_time, b.end_time)

\* An update and a create of one user, for ranges that overlap, have both
\* passed the overlap check; the update has written and the create was
\* turned away by the constraint.
C18_Witness ==
    \E i \in 1..Len(calls) : \E j \in 1..Len(calls) :
        /\ calls[i].op = "UpdateAppointment" /\ calls[j].op = "CreateAppointment"
        /\ calls[i].uid = calls[j].uid
        /\ RequestsOverlap(calls[i].req, calls[j].req)
        /\ calls[i].passed /\ calls[j].passed
        /\ calls[i].pc = "done" /\ calls[j].pc = "done"
        /\ calls[i].err = NoErr
        /\ calls[j].err = Conflict
        /\ \E a \in store.appts :
                a.id = calls[i].req.id /\ a.start_time = AsTime(calls[i].req.start_time)

-----------------------------------------------------------------------------
(* C19.  N callers, one slot.                                              *)

\* The calls of user u that create in slot s with arguments that pass.
Racers(u, s) ==
    {i \in 1..Len(calls) :
        /\ calls[i].op = "CreateAppointment"
        /\ calls[i].uid = u
        /\ SameRange(calls[i].req, s)
        /\ CreateArguments(calls[i].req) = NoErr}

\* The calls of user u are N >= 1 creates in slot s and all have returned.
RaceOver(u, s) ==
    /\ Racers(u, s) # {}
    /\ \A i \in 1..Len(calls) : calls[i].uid = u => i \in Racers(u, s)
    /\ \A i \in Racers(u, s) : calls[i].pc = "done"

\* C19: when N concurrent CreateAppointment calls are made by one user for
\* one time range, exactly one returns success and each of the other N-1
\* returns AlreadyExists; none returns another error, and exactly one
\* appointment row is created.
C19_ExactlyOneWinner ==
    \A u \in {User1, User2} : \A s \in RaceSlots :
        RaceOver(u, s)
            => /\ Cardinality({i \in Racers(u, s) : calls[i].err = NoErr}) = 1
               /\ \A i \in Racers(u, s) :
                      calls[i].err # NoErr => calls[i].err.code = AlreadyExists
               /\ Cardinality({a \in store.appts : a.user_id = u}) = 1

\* Three calls of one user for one slot have all passed the overlap check
\* before any of them wrote; one has won.
C19_Witness ==
    /\ Len(calls) = 3
    /\ RaceOver(User1, Slot(SlotStart, SlotEnd))
    /\ \A i \in 1..Len(calls) : calls[i].passed
    /\ Cardinality({i \in 1..Len(calls) : calls[i].err = NoErr}) = 1
    /\ Cardinality({i \in 1..Len(calls) : calls[i].err = Conflict}) = 2

-----------------------------------------------------------------------------
(* C20.  What counts as a conflict.                                        *)

\* Row a lies across the range of request r, each range without its end.
Across(a, r) ==
    /\ Before(a.start_time, AsTime(r.end_time))
    /\ Before(AsTime(r.start_time), a.end_time)

\* The rows of user u, of whatever status, across the range of r.
InTheWay(st, u, r) == {a \in st.appts : a.user_id = u /\ Across(a, r)}

\* From st to st1 one confirmed row of user u for the range of r was added.
OneRowAdded(st, st1, u, r) ==
    \E a \in st1.appts \ st.appts :
        /\ st1.appts = st.appts \cup {a}
        /\ a.user_id = u
        /\ a.status = Confirmed
        /\ a.start_time = AsTime(r.start_time)
        /\ a.end_time = AsTime(r.end_time)

\* One CreateAppointment call, with arguments that pass and no attendees,
\* from store st to store st1.
ConflictRule(st, st1, call) ==
    /\ (\E a \in InTheWay(st, call.uid, call.req) : a.status = Confirmed)
        => call.err = Conflict /\ st1 = st
    /\ ((\E a \in st.appts : a.user_id = call.uid
                               /\ a.end_time = AsTime(call.req.start_time))
            /\ InTheWay(st, call.uid, call.req) = {})
        => call.err = NoErr /\ OneRowAdded(st, st1, call.uid, call.req)
    /\ ((\E a \in st.appts : a.user_id # call.uid
                               /\ a.status = Confirmed
                               /\ a.start_time = AsTime(call.req.start_time)
                               /\ a.end_time = AsTime(call.req.end_time))
            /\ InTheWay(st, call.uid, call.req) = {})
        => call.err = NoErr /\ OneRowAdded(st, st1, call.uid, call.req)

\* C20: conflicts are per user and end-exclusive.  A create whose range is
\* that of a confirmed appointment of the same user, or overlaps it in
\* part, returns AlreadyExists and stores nothing; a create that starts
\* where an appointment of the same user ends succeeds; a create for the
\* very range another user has booked succeeds.
C20_ConflictsPerUserEndExclusive ==
    [][ (/\ phase' = "served"
         /\ Len(handlerCalls') = 1
         /\ handlerCalls'[1].op = "CreateAppointment"
         /\ CreateArguments(handlerCalls'[1].req) = NoErr
         /\ handlerCalls'[1].req.attendee_ids = <<>>)
        => ConflictRule(store, store', handlerCalls'[1]) ]_vars

\* The first user holds two appointments back to back, the second just
\* created.
C20_Witness ==
    /\ HandlerSucceeded
    /\ handlerCalls[1].op = "CreateAppointment"
    /\ handlerCalls[1].uid = User1
    /\ handlerCalls[1].req.start_time = Ts(SlotEnd, 0)
    /\ \E a \in store.appts : \E b \in store.appts :
            /\ a.user_id = User1 /\ b.user_id = User1
            /\ a.status = Confirmed /\ b.status = Confirmed
            /\ a.end_time = b.start_time
            /\ b.id = handlerCalls[1].resp.appointment.id

-----------------------------------------------------------------------------
(* C21.  Moving an appointment.                                            *)

\* The rows of user u other than the row id that lie across the range of r.
OthersInTheWay(st, u, id, r) == {b \in InTheWay(st, u, r) : b.id # id}

\* From st to st1 row a took the title, times and location of r and
\* nothing else changed but its updated_at.
RowMoved(st, st1, a, r) ==
    \E a1 \in st1.appts :
        /\ st1.appts = (st.appts \ {a}) \cup {a1}
        /\ a1 = [a EXCEPT !.title = r.title, !.description = r.description,
                          !.start_time = AsTime(r.start_time),
                          !.end_time = AsTime(r.end_time),
                          !.location = r.location, !.updated_at = a1.updated_at]

\* One UpdateAppointment call by the owner of row a, with arguments that
\* pass and no attendees, from store st to store st1.
MoveRule(st, st1, call, a) ==
    /\ (\E b \in OthersInTheWay(st, call.uid, a.id, call.req) : b.status = Confirmed)
        => call.err = Conflict /\ st1 = st
    /\ (Across(a, call.req) /\ OthersInTheWay(st, call.uid, a.id, call.req) = {})
        => call.err = NoErr /\ RowMoved(st, st1, a, call.req)

\* C21: UpdateAppointment leaves the appointment being updated out of the
\* overlap check.  Moving appointment A into a range that a different
\* confirmed appointment B of the same user lies across returns
\* AlreadyExists and leaves A's title, times, location and attendees as
\* they were; an update whose new range only A itself lies across
\* succeeds.
C21_UpdateExcludesItself ==
    [][ (/\ phase' = "served"
         /\ Len(handlerCalls') = 1
         /\ handlerCalls'[1].op = "UpdateAppointment"
         /\ UpdateArguments(handlerCalls'[1].req) = NoErr
         /\ handlerCalls'[1].req.attendee_ids = <<>>)
        => \A a \in store.appts :
               (a.id = handlerCalls'[1].req.id /\ a.user_id = handlerCalls'[1].uid)
                   => MoveRule(store, store', handlerCalls'[1], a) ]_vars

\* The first appointment was renamed and moved to a range across its own.
C21_Witness ==
    /\ HandlerSucceeded
    /\ handlerCalls[1].op = "UpdateAppointment"
    /\ handlerCalls[1].req.title = Title2
    /\ \E a \in store.appts :
            /\ a.id = handlerCalls[1].req.id
            /\ a.title = Title2
            /\ a.start_time = TimeAt(SlotStart + 500, 0)
            /\ a.end_time = TimeAt(SlotEnd + 500, 0)

-----------------------------------------------------------------------------
(* C22.  Reads and the owner.                                              *)

\* The Handler was invoked as op.
Invoked(op) == phase = "served" /\ Len(handlerCalls) = 1 /\ handlerCalls[1].op = op

\* The call answered NotFound "not found", and so did the bridge.
AnsweredNotFound ==
    /\ handlerCalls[1].err = StatusError(NotFound, "not found")
    /\ TrailerExactly(resp, NotFound, "not found")

\* C22: reads are confined to the caller's own appointments.
\* GetAppointment for an appointment of another user returns NotFound,
\* with the code and the message it returns for an id that does not exist,
\* and ListAppointments never returns an appointment whose owner is not
\* the caller, whatever the users have created.
C22_ReadsOwnOnly ==
    /\ Invoked("GetAppointment")
        => /\ (\E a \in store.appts : a.id = handlerCalls[1].req.id
                                       /\ a.user_id # handlerCalls[1].uid)
                => AnsweredNotFound
           /\ (handlerCalls[1].req.id # <<>>
                    /\ handlerCalls[1].req.id \notin ApptIds(store))
                => AnsweredNotFound
           /\ handlerCalls[1].err = NoErr
                => handlerCalls[1].resp.appointment.user_id = handlerCalls[1].uid
    /\ (Invoked("ListAppointments") /\ handlerCalls[1].err = NoErr)
        => \A i \in 1..Len(handlerCalls[1].resp.appointments) :
               handlerCalls[1].resp.appointments[i].user_id = handlerCalls[1].uid

\* The second user asked for the first user's appointment.
C22_Witness ==
    /\ Invoked("GetAppointment")
    /\ handlerCalls[1].uid = User2
    /\ \E a \in store.appts : a.id = handlerCalls[1].req.id /\ a.user_id = User1
    /\ \E b \in store.appts : b.user_id = User2
    /\ AnsweredNotFound

-----------------------------------------------------------------------------
(* C23.  Mutations and the owner.                                          *)

\* The attendee rows of appointment id.
AttendeesOf(st, id) == {r \in st.attendees : r[1] = id}

\* No row of st has this id and this owner.
NotOwned(st, id, u) == ~\E a \in st.appts : a.id = id /\ a.user_id = u

\* C23: ownership is enforced on mutations as on reads.  UpdateAppointment
\* and DeleteAppointment addressed to an appointment of another user, or to
\* an id that does not exist, return NotFound and leave that appointment's
\* row and its attendee rows as they were.
C23_MutationsOwnOnly ==
    [][ (/\ phase' = "served"
         /\ Len(handlerCalls') = 1
         /\ handlerCalls'[1].op \in {"UpdateAppointment", "DeleteAppointment"}
         /\ handlerCalls'[1].req.id # <<>>
         /\ handlerCalls'[1].op = "UpdateAppointment"
                => UpdateArguments(handlerCalls'[1].req) = NoErr
         /\ NotOwned(store, handlerCalls'[1].req.id, handlerCalls'[1].uid))
        => /\ handlerCalls'[1].err = StatusError(NotFound, "not found")
           /\ \A a \in store.appts :
                  a.id = handlerCalls'[1].req.id
                    => /\ a \in store'.appts
                       /\ AttendeesOf(store', a.id) = AttendeesOf(store, a.id) ]_vars

-----------------------------------------------------------------------------
(* C24.  The soft delete.                                                  *)

\* The step serves a call of op that the Handler answered without error.
Succeeds(op) ==
    /\ phase' = "served"
    /\ Len(handlerCalls') = 1
    /\ handlerCalls'[1].op = op
    /\ handlerCalls'[1].err = NoErr

\* Row a as the cancelling statement leaves it.
CancelledRow(a) == [a EXCEPT !.status = Cancelled, !.updated_at = TimeAt(Now, 0)]

-----------------------------------------------------------------------------
(* C25.  The rate limiter in front of Login and Register.                  *)

\* The step runs a Handler operation that is rate limited.
RunsLimited ==
    /\ phase = "idle" /\ phase' = "served"
    /\ handlerCalls' # <<>>
    /\ PathOf(handlerCalls'[1].op) \in limited

\* The step is a listener call of a limited method by a peer whose bucket
\* is empty.
RefusedByLimiter ==
    /\ phase = "idle" /\ phase' = "served"
    /\ calls' # <<>>
    /\ PathOf(calls'[1].op) \in limited
    /\ limiter[calls'[1].peer] = 0

\* C25: Login and Register are rate limited by a token bucket per client
\* that runs before the Handler.  A step that runs the Handler's Login or
\* Register takes a token of some client's bucket, and a call the limiter
\* rejects returns ResourceExhausted and runs no Handler operation, on the
\* gRPC listener and through the bridge.
C25_RateLimited ==
    [][ /\ RunsLimited
            => \E c \in Clients :
                  /\ limiter[c] > 0
                  /\ limiter' = [limiter EXCEPT ![c] = @ - 1]
        /\ RefusedByLimiter
            => /\ calls'[1].err = StatusError(ResourceExhausted, "too many requests")
               /\ handlerCalls' = <<>>
               /\ store' = store ]_vars

-----------------------------------------------------------------------------
(* C26.  Login and unknown e-mails.                                        *)

\* Some user of st has this e-mail.
Registered(st, email) == \E u \in st.users : u.email = email

\* Login was called with an e-mail and a password, and failed.
LoginFailed ==
    /\ Invoked("Login")
    /\ handlerCalls[1].req.email # <<>>
    /\ handlerCalls[1].req.password # <<>>
    /\ handlerCalls[1].err # NoErr

\* C26: Login does not reveal whether an e-mail is registered.  With a
\* non-empty e-mail and password, the failure for an e-mail no user has and
\* the failure for a wrong password are the same status, Unauthenticated,
\* with the same message, from the Handler and on the wire.
C26_LoginDoesNotReveal ==
    LoginFailed
        => /\ handlerCalls[1].err = StatusError(Unauthenticated, "invalid credentials")
           /\ TrailerExactly(resp, Unauthenticated, "invalid credentials")

\* A Login for an e-mail no user has was refused.
C26_Witness == LoginFailed /\ ~Registered(store, handlerCalls[1].req.email)

-----------------------------------------------------------------------------
(* C27.  Calls and the request's context.                                  *)

\* No call of the bridge is in flight.
NoCallInFlight == \A i \in 1..Len(calls) : calls[i].pc # "in flight"

\* C27: every backend transport call on the opaque path, and every Handler
\* call on the direct path, runs under a context derived from the inbound
\* request's context, and once the request is cancelled while such a call
\* is in flight the call observes it: no call stays in flight after its
\* request has ended.
C27_CancellationReachesCalls ==
    /\ [](\A i \in 1..Len(calls) : calls[i].ctx[1] = RequestContext[1])
    /\ (phase = "cancelled") ~> NoCallInFlight

\* The backend call of a cancelled request has returned Canceled.
C27_Witness ==
    /\ phase = "served"
    /\ backendCalls # <<>>
    /\ backendCalls[1].reply.err = ContextCanceled
    /\ TrailerExactly(resp, Canceled, "context canceled")
    /\ NoCallInFlight

-----------------------------------------------------------------------------
(* C28.  The rotation of a refresh token.                                  *)

\* What other operations can see of rotation c in table st: the old token
\* pointing at the new one, the new token.
RevokeVisible(st, c) ==
    \E t \in st.refresh_tokens : t.id = c.oldID /\ t.replaced_by = c.newID
InsertVisible(st, c) ==
    \E t \in st.refresh_tokens : t.id = c.newID /\ t.token_hash = c.newHash

NotRotated(st, c) == ~RevokeVisible(st, c) /\ ~InsertVisible(st, c)
Rotated(st, c) ==
    /\ \E t \in st.refresh_tokens :
            t.id = c.oldID /\ t.revoked /\ t.replaced_by = c.newID
    /\ \E t \in st.refresh_tokens :
            /\ t = TokenRow(c.newID, c.userID, c.newHash, Expiry)

\* C28: RotateRefreshToken is atomic.  While a rotation of a token there
\* is runs, other operations see the old token as it was and no new token;
\* the step that commits it shows the old token revoked, replaced_by the
\* new id, and the new token unrevoked; a rotation that fails leaves the
\* table as it was.
C28_RotateAtomic ==
    [][ \A i \in 1..Len(calls) :
          (\E t \in store.refresh_tokens : t.id = calls[i].oldID)
            => /\ calls'[i].pc # "done" => NotRotated(store', calls'[i])
               /\ (calls'[i].pc = "done" /\ calls'[i].err)
                    => NotRotated(store', calls'[i])
               /\ (calls[i].pc # "done" /\ calls'[i].pc = "done" /\ calls'[i].err)
                    => store' = store
               /\ (calls[i].pc # "done" /\ calls'[i].pc = "done" /\ ~calls'[i].err)
                    => Rotated(store', calls'[i]) ]_vars

\* A rotation has committed: the old token is revoked and points at the
\* new one.
C28_Witness ==
    \E i \in 1..Len(calls) :
        /\ calls[i].pc = "done"
        /\ ~calls[i].err
        /\ Rotated(store, calls[i])

-----------------------------------------------------------------------------
(* C29.  Cancelled appointments and their time range.                      *)

\* Every row of u across the range of r is cancelled, and there is one.
OnlyCancelledInTheWay(st, u, r) ==
    /\ InTheWay(st, u, r) # {}
    /\ \A a \in InTheWay(st, u, r) : a.status = Cancelled

\* C29: a cancelled appointment keeps blocking its time range.  When the
\* only rows of the caller across the new range are cancelled ones, a
\* CreateAppointment with valid arguments passes the overlap check of the
\* application, is rejected by the store, returns AlreadyExists and
\* creates no row.
C29_CancelledStillBlocks ==
    [][ (/\ phase' = "served"
         /\ Len(handlerCalls') = 1
         /\ handlerCalls'[1].op = "CreateAppointment"
         /\ CreateArguments(handlerCalls'[1].req) = NoErr
         /\ OnlyCancelledInTheWay(store, handlerCalls'[1].uid, handlerCalls'[1].req))
        => /\ ~HasOverlap(store, handlerCalls'[1].uid,
                          AsTime(handlerCalls'[1].req.start_time),
                          AsTime(handlerCalls'[1].req.end_time), <<>>).val
           /\ handlerCalls'[1].err = Conflict
           /\ TrailerExactly(resp', AlreadyExists,
                             "time conflicts with existing appointment")
           /\ store' = store ]_vars

\* A create across a cancelled appointment of the caller was refused.
C29_Witness ==
    /\ Invoked("CreateAppointment")
    /\ CreateArguments(handlerCalls[1].req) = NoErr
    /\ OnlyCancelledInTheWay(store, handlerCalls[1].uid, handlerCalls[1].req)
    /\ handlerCalls[1].err = Conflict

-----------------------------------------------------------------------------
(* C30.  The two validators of the Authorization value.                    *)

\* The two decisions are the same: the same user, or the same error.
SameDecision(a, b) == a.err = b.err /\ a.uid = b.uid

\* The Authorization value of the call served, at the bridge or at the
\* listener.
AtBridge == phase = "served" /\ calls = <<>> /\ Route(req.path) \notin {"Login", "Register"}
AtListener == phase = "served" /\ calls # <<>> /\ PathOf(calls[1].op) \notin open
HeaderOf(md) == IF md.authorization = <<>> THEN <<>> ELSE md.authorization[1]

\* The decision the served call shows: the Handler ran for a user, or the
\* call was refused with an error.
Shown(d, err) ==
    IF d.err = NoErr
    THEN handlerCalls # <<>> /\ handlerCalls[1].uid = d.uid
    ELSE handlerCalls = <<>> /\ err = d.err

\* C30: for every Authorization value the validator of the bridge
\* (manualAuth) and the validator of the backend (middleware.Auth) make
\* the same decision: both accept with the same user id, or both reject
\* with the same status code and the same message.
C30_ValidatorsAgree ==
    /\ AtBridge
        => /\ SameDecision(manualAuth(req.auth, Secret),
                           Auth(Secret, req.path, MetadataOf(req.auth)))
           /\ manualAuth(req.auth, Secret).err # NoErr
                => TrailerExactly(resp,
                        FromError(Auth(Secret, req.path, MetadataOf(req.auth)).err).code,
                        FromError(Auth(Secret, req.path, MetadataOf(req.auth)).err).msg)
    /\ AtListener
        => /\ SameDecision(manualAuth(HeaderOf(calls[1].md), Secret),
                           Auth(Secret, PathOf(calls[1].op), calls[1].md))
           /\ Shown(manualAuth(HeaderOf(calls[1].md), Secret), calls[1].err)

====
